---- MODULE Spec2Model ----
(***************************************************************************)
(* The Borno interpreter: scanner, parser and tree-walking evaluator.      *)
(*                                                                         *)
(* Scanner.ScanTokens is a loop of scanToken calls; every call is one step *)
(* of LexSpec.  Parser.Parse is a loop of declaration calls; every call is *)
(* one step of ParseSpec, and the recursive-descent methods are operators  *)
(* that thread the token position and the had-error flag.                  *)
(*                                                                         *)
(* Interpreter.eval is recursive in the source; in Spec every recursive    *)
(* call pushes a frame on `stack` and every return pops one, so that the   *)
(* position of each in-flight eval case is part of the state.  `ctrl` is   *)
(* either the node about to be evaluated ("eval"), the (value, signal)     *)
(* pair being returned to the frame on top of the stack ("ret"), or "idle" *)
(* between two top-level statements of Interpret.                          *)
(*                                                                         *)
(* Numbers are float64 or int64 values of the source restricted to         *)
(* integral ones.  The scanner works on the runes of the source text; in   *)
(* the parser and the evaluator identifiers and built-in names are written *)
(* in ASCII.  Files are run with isRepl = false (main.go runFile).         *)
(***************************************************************************)
EXTENDS Integers, Sequences, FiniteSets, TLC

VARIABLES prog, pcTop, returned, results, ctrl, stack, envs, heap, out,
          hadRuntimeError, lastError, calls,
          source, start, current, line, tokens, hadError, reports, phase,
          pcurrent, statements, parseError, interpreted

(* the state of the evaluator *)
evalVars == <<prog, pcTop, returned, results, ctrl, stack, envs, heap, out,
              hadRuntimeError, lastError, calls>>

(* the state of the scanner, the parser and main.run *)
frontVars == <<source, start, current, line, tokens, hadError, reports, phase,
               pcurrent, statements, parseError, interpreted>>

vars == <<evalVars, frontVars>>

(* Bounds of the model *)
MaxEnvs == 24
MaxHeap == 3
MaxOut == 8

-----------------------------------------------------------------------------
(* Runtime values (interface{} in the source) *)

NilV == [k |-> "nil"]
BoolV(b) == [k |-> "bool", b |-> b]
NumV(n) == [k |-> "float", n |-> n]
ArrV(p, l) == [k |-> "array", ptr |-> p, len |-> l]
FnV(d, c) == [k |-> "fn", decl |-> d, closure |-> c]
NativeV(nm) == [k |-> "native", name |-> nm]
(* an int64, the result of a bitwise operator *)
IntV(n) == [k |-> "int", n |-> n]
(* a []rune, the value of a string literal *)
RunesV(rs) == [k |-> "runes", rs |-> rs]
(* a Go string, the result of a concatenation *)
StringV(rs) == [k |-> "string", rs |-> rs]

(* Control-flow signals *)
ControlFlowNone == "None"
ControlFlowBreak == "Break"
ControlFlowContinue == "Continue"
ControlFlowReturn == "Return"

Signal(t, v) == [type |-> t, value |-> v]
NoSignal == Signal(ControlFlowNone, NilV)

-----------------------------------------------------------------------------
(* AST nodes.  NoNode stands for a nil Expr/Stmt field. *)

NoNode == [t |-> "nil"]
Literal(v) == [t |-> "Literal", value |-> v]
Num(n) == Literal(NumV(n))
Identifier(nm) == [t |-> "Identifier", name |-> nm]
Binary(l, op, r) == [t |-> "Binary", left |-> l, operator |-> op, right |-> r]
AssignmentStmt(nm, v) == [t |-> "AssignmentStmt", name |-> nm, value |-> v]
ExpressionStatement(e) == [t |-> "ExpressionStatement", expression |-> e]
PrintStatement(e) == [t |-> "PrintStatement", expression |-> e]
VarStmt(nm, init) == [t |-> "VarStmt", name |-> nm, initializer |-> init]
BlockStmt(ss) == [t |-> "BlockStmt", block |-> ss]
IfStmt(c, th, el) == [t |-> "IfStmt", condition |-> c, thenBranch |-> th, elseBranch |-> el]
While(c, b) == [t |-> "While", condition |-> c, body |-> b]
ForStmt(i, c, inc, b) ==
    [t |-> "ForStmt", initializer |-> i, condition |-> c, increment |-> inc, body |-> b]
BreakStmt == [t |-> "BreakStmt"]
ContinueStmt == [t |-> "ContinueStmt"]
Return(v) == [t |-> "Return", value |-> v]
FunctionStmt(nm, ps, b) == [t |-> "FunctionStmt", name |-> nm, params |-> ps, body |-> b]
Call(c, as) == [t |-> "Call", callee |-> c, arguments |-> as]
ArrayLiteral(es) == [t |-> "ArrayLiteral", elements |-> es]
ArrayAccess(a, i) == [t |-> "ArrayAccess", array |-> a, index |-> i]
ArrayAssignment(a, i, v) == [t |-> "ArrayAssignment", array |-> a, index |-> i, value |-> v]
Logical(l, op, r) == [t |-> "Logical", left |-> l, operator |-> op, right |-> r]
Unary(op, r) == [t |-> "Unary", operator |-> op, right |-> r]
Grouping(e) == [t |-> "Grouping", expression |-> e]
PropertyAccess(o, nm) == [t |-> "PropertyAccess", object |-> o, property |-> nm]
PropertyAssignment(o, nm, v) ==
    [t |-> "PropertyAssignment", object |-> o, property |-> nm, value |-> v]
ObjectLiteral(ps) == [t |-> "ObjectLiteral", properties |-> ps]
VarListStmt(ds) == [t |-> "VarListStmt", declarations |-> ds]

-----------------------------------------------------------------------------
(* Scanner (lexer/scanner.go).  A rune is a string: the character itself  *)
(* for ASCII, "U+hhhh" for a Bengali code point.  The source is a         *)
(* sequence of runes and `current` counts the runes consumed.             *)

(* the keys are the runes of the keywords; U+hhhh is a Bengali code point *)
keywords ==
    (* ফাংশন *)
    (<<"U+09AB", "U+09BE", "U+0982", "U+09B6", "U+09A8">> :> "FUN")
    (* ধরি *)
    @@ (<<"U+09A7", "U+09B0", "U+09BF">> :> "VAR")
    (* ফর *)
    @@ (<<"U+09AB", "U+09B0">> :> "FOR")
    (* যদি *)
    @@ (<<"U+09AF", "U+09A6", "U+09BF">> :> "IF")
    (* নাহয় *)
    @@ (<<"U+09A8", "U+09BE", "U+09B9", "U+09DF">> :> "ELSE")
    (* যতক্ষণ *)
    @@ (<<"U+09AF", "U+09A4", "U+0995", "U+09CD", "U+09B7", "U+09A3">> :> "WHILE")
    (* সত্য *)
    @@ (<<"U+09B8", "U+09A4", "U+09CD", "U+09AF">> :> "TRUE")
    (* মিথ্যা *)
    @@ (<<"U+09AE", "U+09BF", "U+09A5", "U+09CD", "U+09AF", "U+09BE">> :> "FALSE")
    (* nil *)
    @@ (<<"n", "i", "l">> :> "NIL")
    (* print *)
    @@ (<<"p", "r", "i", "n", "t">> :> "PRINT")
    (* ফেরত *)
    @@ (<<"U+09AB", "U+09C7", "U+09B0", "U+09A4">> :> "RETURN")
    (* থামো *)
    @@ (<<"U+09A5", "U+09BE", "U+09AE", "U+09CB">> :> "BREAK")
    (* চালিয়ে_যাও *)
    @@ (<<"U+099A", "U+09BE", "U+09B2", "U+09BF", "U+09DF", "U+09C7",
          "_", "U+09AF", "U+09BE", "U+0993">> :> "CONTINUE")
    (* এবং *)
    @@ (<<"U+098F", "U+09AC", "U+0982">> :> "LOGICAL_AND")
    (* বা *)
    @@ (<<"U+09AC", "U+09BE">> :> "LOGICAL_OR")

NewToken(tokenType, lexeme, literal, ln) ==
    [type |-> tokenType, lexeme |-> lexeme, literal |-> literal, line |-> ln]

(* the rune 0 that peek and peekNext return at the end of the source *)
NUL == "NUL"

(* unicode.IsLetter and unicode.IsMark on the runes of the model *)
unicodeIsLetter(r) ==
    r \in {"i", "l", "n", "p", "r", "t", "x", "U+098F", "U+0993", "U+0995", "U+0996",
           "U+099A", "U+09A3", "U+09A4", "U+09A5", "U+09A6", "U+09A7", "U+09A8", "U+09AB",
           "U+09AC", "U+09AE", "U+09AF", "U+09B0", "U+09B2", "U+09B6", "U+09B7", "U+09B8",
           "U+09B9", "U+09DF"}

unicodeIsMark(r) == r \in {"U+0982", "U+09BE", "U+09BF", "U+09C7", "U+09CB", "U+09CD"}

isAlpha(r) == unicodeIsLetter(r) \/ unicodeIsMark(r) \/ r = "_"

isDigit(c) ==
    \/ c \in {"0", "1", "2", "3", "4", "5", "6", "7", "8", "9"}
    \/ c \in {"U+09E6", "U+09E7", "U+09E8", "U+09E9", "U+09EA", "U+09EB", "U+09EC",
              "U+09ED", "U+09EE", "U+09EF"}

isAlphaNumeric(c) == isAlpha(c) \/ isDigit(c)

isAtEnd(c) == c >= Len(source)

peek(c) == IF isAtEnd(c) THEN NUL ELSE source[c + 1]

peekNext(c) == IF c + 1 >= Len(source) THEN NUL ELSE source[c + 2]

(* string(s.source[a:b]), kept as its runes *)
Text(a, b) == SubSeq(source, a + 1, b)

(* s.match(expected) at position c: the position after it *)
match(c, expected) == IF ~isAtEnd(c) /\ source[c + 1] = expected THEN c + 1 ELSE c

convertBanglaDigitsToASCII(rs) ==
    LET replacements ==
            ("U+09E6" :> "0") @@ ("U+09E7" :> "1") @@ ("U+09E8" :> "2")
            @@ ("U+09E9" :> "3") @@ ("U+09EA" :> "4") @@ ("U+09EB" :> "5")
            @@ ("U+09EC" :> "6") @@ ("U+09ED" :> "7") @@ ("U+09EE" :> "8")
            @@ ("U+09EF" :> "9")
    IN [i \in 1..Len(rs) |->
           IF rs[i] \in DOMAIN replacements THEN replacements[rs[i]] ELSE rs[i]]

(* strconv.ParseFloat on a run of ASCII digits with at most one point: the *)
(* value is the whole part and the fraction digits without trailing zeros  *)
DigitValue(d) ==
    (("0" :> 0) @@ ("1" :> 1) @@ ("2" :> 2) @@ ("3" :> 3) @@ ("4" :> 4) @@ ("5" :> 5)
     @@ ("6" :> 6) @@ ("7" :> 7) @@ ("8" :> 8) @@ ("9" :> 9))[d]

RECURSIVE WholeValue(_)
WholeValue(ds) ==
    IF ds = <<>> THEN 0
    ELSE 10 * WholeValue(SubSeq(ds, 1, Len(ds) - 1)) + DigitValue(ds[Len(ds)])

RECURSIVE StripZeros(_)
StripZeros(ds) ==
    IF ds # <<>> /\ ds[Len(ds)] = "0" THEN StripZeros(SubSeq(ds, 1, Len(ds) - 1)) ELSE ds

ParseFloat(rs) ==
    LET dot == {i \in 1..Len(rs) : rs[i] = "."}
        p == IF dot = {} THEN Len(rs) + 1 ELSE CHOOSE i \in dot : TRUE
        frac == StripZeros(SubSeq(rs, p + 1, Len(rs)))
    IN IF frac = <<>> THEN [k |-> "float", n |-> WholeValue(SubSeq(rs, 1, p - 1))]
       ELSE [k |-> "float", n |-> WholeValue(SubSeq(rs, 1, p - 1)),
             frac |-> [i \in 1..Len(frac) |-> DigitValue(frac[i])]]

(* the loops of identifier, number, the line comment, stringLiteral and *)
(* multilineComment: the position (and the line) each ends at           *)
RECURSIVE identifierEnd(_)
identifierEnd(c) == IF isAlphaNumeric(peek(c)) THEN identifierEnd(c + 1) ELSE c

RECURSIVE digitsEnd(_)
digitsEnd(c) == IF isDigit(peek(c)) THEN digitsEnd(c + 1) ELSE c

numberEnd(c) ==
    LET d == digitsEnd(c)
    IN IF peek(d) = "." /\ isDigit(peekNext(d)) THEN digitsEnd(d + 1) ELSE d

RECURSIVE lineCommentEnd(_)
lineCommentEnd(c) ==
    IF peek(c) # "\n" /\ ~isAtEnd(c) THEN lineCommentEnd(c + 1) ELSE c

RECURSIVE stringLiteralLoop(_, _)
stringLiteralLoop(c, ln) ==
    IF peek(c) # "\"" /\ ~isAtEnd(c)
    THEN stringLiteralLoop(c + 1, IF peek(c) = "\n" THEN ln + 1 ELSE ln)
    ELSE [current |-> c, line |-> ln]

RECURSIVE multilineComment(_, _)
multilineComment(c, ln) ==
    IF isAtEnd(c) THEN [current |-> c, line |-> ln, closed |-> FALSE]
    ELSE IF peek(c) = "\n" THEN multilineComment(c + 1, ln + 1)
    ELSE IF peek(c) = "*" /\ peekNext(c) = "/"
         THEN [current |-> c + 2, line |-> ln, closed |-> TRUE]
    ELSE multilineComment(c + 1, ln)

(* the state a scanToken call leaves: s.start = s.current, the call *)
(* consumed the runes up to c, is on line ln and appended the tokens ts *)
Scanned(c, ln, ts) ==
    /\ start' = current
    /\ current' = c
    /\ line' = ln
    /\ tokens' = tokens \o ts
    /\ UNCHANGED <<source, hadError, reports, phase, pcurrent, statements,
                   parseError, interpreted, evalVars>>

(* the same after utils.GlobalError(s.line, msg) *)
ScannedWithError(c, ln, msg) ==
    /\ start' = current
    /\ current' = c
    /\ line' = ln
    /\ hadError' = TRUE
    /\ reports' = Append(reports, msg)
    /\ UNCHANGED <<source, tokens, phase, pcurrent, statements, parseError,
                   interpreted, evalVars>>

(* s.AddToken(tokenType, literal) when the lexeme ends at c on line ln *)
AddToken(tokenType, literal, c, ln) ==
    Scanned(c, ln, <<NewToken(tokenType, Text(current, c), literal, ln)>>)

ScanLoop == phase = "scan" /\ ~isAtEnd(current)

singleCharTokens ==
    ("(" :> "LEFT_PAREN") @@ (")" :> "RIGHT_PAREN") @@ ("{" :> "LEFT_BRACE")
    @@ ("}" :> "RIGHT_BRACE") @@ ("[" :> "LEFT_BRACKET") @@ ("]" :> "RIGHT_BRACKET")
    @@ ("," :> "COMMA") @@ ("." :> "DOT") @@ ("-" :> "MINUS") @@ (":" :> "COLON")
    @@ ("+" :> "PLUS") @@ (";" :> "SEMICOLON") @@ ("^" :> "XOR") @@ ("~" :> "NOT")
    @@ ("%" :> "MODULO")

ScanSingle ==
    /\ ScanLoop
    /\ source[current + 1] \in DOMAIN singleCharTokens
    /\ AddToken(singleCharTokens[source[current + 1]], [k |-> "nil"], current + 1, line)

(* the cases that look one rune ahead with s.match *)
ScanOperator ==
    /\ ScanLoop
    /\ LET c == source[current + 1]
           n == current + 1
           two(r) == match(n, r) # n
           add(tokenType, len) == AddToken(tokenType, [k |-> "nil"], current + len, line)
       IN /\ c \in {"|", "&", "*", "!", "=", "<", ">"}
          /\ IF c = "|" THEN (IF two("|") THEN add("LOGICAL_OR", 2) ELSE add("OR", 1))
             ELSE IF c = "&"
                  THEN (IF two("&") THEN add("LOGICAL_AND", 2) ELSE add("AND", 1))
             ELSE IF c = "*" THEN (IF two("*") THEN add("POWER", 2) ELSE add("STAR", 1))
             ELSE IF c = "!"
                  THEN (IF two("=") THEN add("BANG_EQUAL", 2) ELSE add("BANG", 1))
             ELSE IF c = "="
                  THEN (IF two("=") THEN add("EQUAL_EQUAL", 2) ELSE add("EQUAL", 1))
             ELSE IF c = "<"
                  THEN (IF two("=") THEN add("LESS_EQUAL", 2)
                        ELSE IF two("<") THEN add("LEFT_SHIFT", 2)
                        ELSE add("LESS", 1))
             ELSE (IF two("=") THEN add("GREATER_EQUAL", 2)
                   ELSE IF two(">") THEN add("RIGHT_SHIFT", 2)
                   ELSE add("GREATER", 1))

ScanSlash ==
    /\ ScanLoop
    /\ source[current + 1] = "/"
    /\ LET n == current + 1
       IN IF match(n, "/") # n THEN Scanned(lineCommentEnd(n + 1), line, <<>>)
          ELSE IF match(n, "*") # n
               THEN LET m == multilineComment(n + 1, line)
                    IN IF m.closed THEN Scanned(m.current, m.line, <<>>)
                       ELSE ScannedWithError(m.current, m.line,
                                             "Unterminated multiline comment")
          ELSE AddToken("SLASH", [k |-> "nil"], n, line)

ScanWhitespace ==
    /\ ScanLoop
    /\ source[current + 1] \in {" ", "\r", "\t"}
    /\ Scanned(current + 1, line, <<>>)

ScanNewline ==
    /\ ScanLoop
    /\ source[current + 1] = "\n"
    /\ Scanned(current + 1, line + 1, <<>>)

ScanString ==
    /\ ScanLoop
    /\ source[current + 1] = "\""
    /\ LET l == stringLiteralLoop(current + 1, line)
       IN IF isAtEnd(l.current)
          THEN ScannedWithError(l.current, l.line, "Unterminated string.")
          ELSE AddToken("STRING",
                        RunesV(SubSeq(source, current + 2, l.current)),
                        l.current + 1, l.line)

ScanNumber ==
    /\ ScanLoop
    /\ isDigit(source[current + 1])
    /\ LET e == numberEnd(current + 1)
           number_lexeme == convertBanglaDigitsToASCII(SubSeq(source, current + 1, e))
       IN AddToken("NUMBER", ParseFloat(number_lexeme), e, line)

ScanIdentifier ==
    /\ ScanLoop
    /\ ~isDigit(source[current + 1])
    /\ isAlpha(source[current + 1])
    /\ LET e == identifierEnd(current + 1)
           text == Text(current, e)
       IN IF text \in DOMAIN keywords THEN AddToken(keywords[text], [k |-> "nil"], e, line)
          ELSE AddToken("IDENTIFIER", [k |-> "nil"], e, line)

(* variant: an unknown rune ends the scan *)
ScanUnexpectedStops ==
    /\ ScanLoop
    /\ LET c == source[current + 1]
       IN /\ c \notin DOMAIN singleCharTokens
          /\ c \notin {"|", "&", "*", "!", "=", "<", ">", "/", " ", "\r", "\t", "\n", "\""}
          /\ ~isDigit(c) /\ ~isAlpha(c)
    /\ start' = current
    /\ current' = Len(source)
    /\ hadError' = TRUE
    /\ reports' = Append(reports, "Unexpected character.")
    /\ UNCHANGED <<source, line, tokens, phase, pcurrent, statements, parseError,
                   interpreted, evalVars>>

ScanUnexpected ==
    /\ ScanLoop
    /\ LET c == source[current + 1]
       IN /\ c \notin DOMAIN singleCharTokens
          /\ c \notin {"|", "&", "*", "!", "=", "<", ">", "/", " ", "\r", "\t", "\n", "\""}
          /\ ~isDigit(c) /\ ~isAlpha(c)
    /\ ScannedWithError(current + 1, line, "Unexpected character.")

(* the end of ScanTokens: the EOF token and the return *)
ScanTokensReturn ==
    /\ phase = "scan"
    /\ isAtEnd(current)
    /\ tokens' = Append(tokens, NewToken("EOF", <<>>, [k |-> "nil"], line))
    /\ phase' = "scanned"
    /\ UNCHANGED <<source, start, current, line, hadError, reports, pcurrent,
                   statements, parseError, interpreted, evalVars>>

-----------------------------------------------------------------------------
(* Parser (parser/parser.go).  A parser value p holds p.tokens, p.current *)
(* and the messages p.error has handed to utils.GlobalErrorToken, each of *)
(* which sets utils.HadError.  A method returns the node, the parser it   *)
(* leaves and the error ("" for nil).  A node keeps the lexeme of a name  *)
(* token and the type of an operator token; Line fields are left out.     *)

reservedIdentifiers ==
    {"clock", "len", "append", "remove", "key_remove", "object_keys", "object_values",
     "abs", "sqrt", "pow", "sin", "cos", "tan", "min", "max", "round", "input",
     "input_ascii"}
(* "input" is the Bengali name of the built-in; "input_ascii" is the English *)
(* spelling, which the table reserves and NewInterpreter does not define     *)

NewParser(ts) == [tokens |-> ts, current |-> 0, reps |-> <<>>]

Ok(n, p) == [node |-> n, p |-> p, err |-> ""]

pPeek(p) == p.tokens[p.current + 1]

pPrevious(p) == p.tokens[p.current]

pIsAtEnd(p) == pPeek(p).type = "EOF"

pCheck(p, tokenType) == ~pIsAtEnd(p) /\ pPeek(p).type = tokenType

pAdvance(p) == IF ~pIsAtEnd(p) THEN [p EXCEPT !.current = @ + 1] ELSE p

(* p.match(types...): whether it consumes a token; pAdvance is its effect *)
pMatch(p, types) == \E tt \in types : pCheck(p, tt)

(* p.error(t, message) as the result of the method that returns it *)
pError(p, message) ==
    [node |-> NoNode, p |-> [p EXCEPT !.reps = Append(@, message)], err |-> message]

(* p.consume: the node of the result is the token consumed *)
pConsume(p, tokenType, message) ==
    IF pCheck(p, tokenType) THEN Ok(pPeek(p), pAdvance(p)) ELSE pError(p, message)

(* the switch on the target of Parser.assignment *)
(* variant: a parenthesised target is unwrapped *)
assignmentTargetUnwrapped(expr, value, p) ==
    IF expr.t = "Identifier" THEN Ok(AssignmentStmt(expr.name, value), p)
    ELSE IF expr.t = "ArrayAccess" THEN Ok(ArrayAssignment(expr.array, expr.index, value), p)
    ELSE IF expr.t = "PropertyAccess"
         THEN Ok(PropertyAssignment(expr.object, expr.property, value), p)
    ELSE IF expr.t = "Grouping" /\ expr.expression.t = "Identifier"
         THEN Ok(AssignmentStmt(expr.expression.name, value), p)
    ELSE pError(p, "Invalid assignment target.")

assignmentTarget(expr, value, p) ==
    IF expr.t = "Identifier" THEN Ok(AssignmentStmt(expr.name, value), p)
    ELSE IF expr.t = "ArrayAccess" THEN Ok(ArrayAssignment(expr.array, expr.index, value), p)
    ELSE IF expr.t = "PropertyAccess"
         THEN Ok(PropertyAssignment(expr.object, expr.property, value), p)
    ELSE pError(p, "Invalid assignment target.")

(* the check of varDeclaration and function on the name token *)
(* variant: every name may be declared *)
isReservedNever(name) == FALSE

isReserved(name) == name \in reservedIdentifiers

RECURSIVE declaration(_), varDeclaration(_), varDeclarationLoop(_, _, _), statement(_),
          forStatement(_), while(_), IfStatement(_), printStatement(_),
          returnStatement(_), expressionStatement(_), function(_, _),
          parameters(_, _), block(_), blockLoop(_, _), expression(_), assignment(_),
          binary(_, _), climb(_, _, _), binaryLoop(_, _),
          unary(_), call(_), callLoop(_), finishCall(_, _), arguments(_, _),
          primary(_), objectLiteral(_), objectLiteralLoop(_, _), arrayLiteral(_)

(* x, err := <call>; if err != nil { return nil, err }; <rest on x> *)
Try(x, rest(_)) == IF x.err # "" THEN x ELSE rest(x)

declaration(p) ==
    IF pMatch(p, {"FUN"}) THEN function(pAdvance(p), "function")
    ELSE IF pMatch(p, {"VAR"}) THEN varDeclaration(pAdvance(p))
    ELSE statement(p)

varDeclaration(p) == varDeclarationLoop(p, pPeek(p).line, <<>>)

(* one pass of the loop of varDeclaration and what follows the loop *)
varDeclarationLoop(p, initialLine, declarations) ==
    Try(pConsume(p, "IDENTIFIER", "Expect variable name."), LAMBDA name :
    IF isReserved(name.node.lexeme)
    THEN pError(name.p, "'" \o name.node.lexeme
                        \o "' is a reserved identifier and cannot be used"
                        \o " as a variable name.")
    ELSE
    Try(IF pMatch(name.p, {"EQUAL"}) THEN expression(pAdvance(name.p))
        ELSE Ok(NoNode, name.p), LAMBDA val :
    IF /\ val.node.t \notin {"ObjectLiteral", "ArrayLiteral"}
       /\ pPeek(val.p).line # initialLine
    THEN pError(val.p, "Expect ';' before newline.")
    ELSE IF pMatch(val.p, {"COMMA"})
         THEN varDeclarationLoop(pAdvance(val.p), initialLine,
                                 Append(declarations, VarStmt(name.node.lexeme, val.node)))
    ELSE
    Try(pConsume(val.p, "SEMICOLON", "Expect ';' after variable declaration."),
        LAMBDA semi :
    IF declarations = <<>> THEN Ok(VarStmt(name.node.lexeme, val.node), semi.p)
    ELSE Ok(VarListStmt(Append(declarations, VarStmt(name.node.lexeme, val.node))),
            semi.p))))

statement(p) ==
    CASE pMatch(p, {"IF"}) -> IfStatement(pAdvance(p))
      [] pMatch(p, {"WHILE"}) -> while(pAdvance(p))
      [] pMatch(p, {"FOR"}) -> forStatement(pAdvance(p))
      [] pMatch(p, {"PRINT"}) -> printStatement(pAdvance(p))
      [] pMatch(p, {"RETURN"}) -> returnStatement(pAdvance(p))
      [] pMatch(p, {"BREAK"}) ->
             Try(pConsume(pAdvance(p), "SEMICOLON", "Expected ; after break."),
                 LAMBDA semi : Ok(BreakStmt, semi.p))
      [] pMatch(p, {"CONTINUE"}) ->
             Try(pConsume(pAdvance(p), "SEMICOLON", "Expected ; after continue."),
                 LAMBDA semi : Ok(ContinueStmt, semi.p))
      [] pMatch(p, {"LEFT_BRACE"}) ->
             Try(block(pAdvance(p)), LAMBDA blocks : Ok(BlockStmt(blocks.node), blocks.p))
      [] OTHER -> expressionStatement(p)

forStatement(p) ==
    Try(pConsume(p, "LEFT_PAREN", "Expect '(' after 'for'."), LAMBDA paren :
    Try(IF pMatch(paren.p, {"SEMICOLON"}) THEN Ok(NoNode, pAdvance(paren.p))
        ELSE IF pMatch(paren.p, {"VAR"}) THEN varDeclaration(pAdvance(paren.p))
        ELSE expressionStatement(paren.p), LAMBDA initializer :
    Try(IF ~pCheck(initializer.p, "SEMICOLON") THEN expression(initializer.p)
        ELSE Ok(NoNode, initializer.p), LAMBDA condition :
    Try(pConsume(condition.p, "SEMICOLON", "Expect ';' after loop condition."),
        LAMBDA semi :
    Try(IF ~pCheck(semi.p, "RIGHT_PAREN") THEN expression(semi.p)
        ELSE Ok(NoNode, semi.p), LAMBDA increment :
    Try(pConsume(increment.p, "RIGHT_PAREN", "Expect ')' after for clauses."),
        LAMBDA close :
    Try(statement(close.p), LAMBDA body :
    Ok(ForStmt(initializer.node,
               IF condition.node = NoNode THEN Literal(BoolV(TRUE)) ELSE condition.node,
               increment.node, body.node), body.p))))))))

while(p) ==
    Try(pConsume(p, "LEFT_PAREN", "Expect '(' after 'while'."), LAMBDA paren :
    Try(expression(paren.p), LAMBDA condition :
    Try(pConsume(condition.p, "RIGHT_PAREN", "Expect ')' after condition."), LAMBDA close :
    Try(statement(close.p), LAMBDA body :
    Ok(While(condition.node, body.node), body.p)))))

IfStatement(p) ==
    Try(pConsume(p, "LEFT_PAREN", "Expect '(' after 'if'."), LAMBDA paren :
    Try(expression(paren.p), LAMBDA condition :
    Try(pConsume(condition.p, "RIGHT_PAREN", "Expect ')' after if condition."),
        LAMBDA close :
    Try(statement(close.p), LAMBDA thenBranch :
    IF pMatch(thenBranch.p, {"ELSE"})
    THEN Try(statement(pAdvance(thenBranch.p)), LAMBDA v :
             Ok(IfStmt(condition.node, thenBranch.node, v.node), v.p))
    ELSE Ok(IfStmt(condition.node, thenBranch.node, NoNode), thenBranch.p)))))

(* the error of the consume is reported and dropped *)
printStatement(p) ==
    Try(expression(p), LAMBDA value :
    Ok(PrintStatement(value.node),
       pConsume(value.p, "SEMICOLON", "Expect ';' after value.").p))

returnStatement(p) ==
    Try(IF ~pCheck(p, "SEMICOLON") THEN expression(p) ELSE Ok(NoNode, p),
        LAMBDA value :
    Try(pConsume(value.p, "SEMICOLON", "Expect ';' after return value."), LAMBDA semi :
    Ok(Return(value.node), semi.p)))

expressionStatement(p) ==
    Try(expression(p), LAMBDA value :
    Ok(ExpressionStatement(value.node),
       pConsume(value.p, "SEMICOLON", "Expect ';' after value.").p))

function(p, kind) ==
    Try(pConsume(p, "IDENTIFIER", "Expect " \o kind \o " name."), LAMBDA name :
    IF isReserved(name.node.lexeme)
    THEN pError(name.p, "'" \o name.node.lexeme
                        \o "' is a reserved identifier and cannot be used"
                        \o " as a function name.")
    ELSE
    Try(pConsume(name.p, "LEFT_PAREN", "Expect '(' after " \o kind \o " name."),
        LAMBDA paren :
    Try(IF ~pCheck(paren.p, "RIGHT_PAREN") THEN parameters(paren.p, <<>>)
        ELSE Ok(<<>>, paren.p), LAMBDA params :
    Try(pConsume(params.p, "RIGHT_PAREN", "Expect ')' after parameters."), LAMBDA close :
    Try(pConsume(close.p, "LEFT_BRACE", "Expect '{' before " \o kind \o " body."),
        LAMBDA brace :
    Try(block(brace.p), LAMBDA body :
    Ok(FunctionStmt(name.node.lexeme, params.node, body.node), body.p)))))))

(* the parameter loop of function *)
parameters(p, ps) ==
    IF Len(ps) >= 255 THEN pError(p, "Can't have more than 255 parameters.")
    ELSE Try(pConsume(p, "IDENTIFIER", "Expect parameter name."), LAMBDA pp :
         IF pMatch(pp.p, {"COMMA"})
         THEN parameters(pAdvance(pp.p), Append(ps, pp.node.lexeme))
         ELSE Ok(Append(ps, pp.node.lexeme), pp.p))

block(p) == blockLoop(p, <<>>)

blockLoop(p, statments) ==
    IF ~pCheck(p, "RIGHT_BRACE") /\ ~pIsAtEnd(p)
    THEN Try(declaration(p), LAMBDA decl :
             blockLoop(decl.p, Append(statments, decl.node)))
    ELSE Ok(statments, pConsume(p, "RIGHT_BRACE", "Expect '}' after block.").p)

expression(p) == assignment(p)

(* The methods of the binary operators, innermost first.  Each is          *)
(*   expr, err := p.<the method before it>(); if err != nil { return }     *)
(*   for p.match(<its operators>) { operator := p.previous()               *)
(*       right, err := p.<the method before it>(); if err != nil { return } *)
(*       expr = &ast.Binary{expr, operator, right} }                       *)
(*   return expr, nil                                                      *)
(* with ast.Logical for the last two; the method before power is unary.    *)
Methods ==
    <<"power", "factor", "term", "shift", "comparison", "equality", "bitwiseAND",
      "bitwiseXOR", "bitwiseOR", "logicalAnd", "logicalOR">>

(* variant: factor also takes + *)
OperatorsWithPlus ==
    <<{"POWER"}, {"SLASH", "STAR", "MODULO", "PLUS"}, {"MINUS", "PLUS"},
      {"LEFT_SHIFT", "RIGHT_SHIFT"}, {"GREATER", "GREATER_EQUAL", "LESS", "LESS_EQUAL"},
      {"BANG_EQUAL", "EQUAL_EQUAL"}, {"AND"}, {"XOR"}, {"OR"}, {"LOGICAL_AND"},
      {"LOGICAL_OR"}>>

(* the operators of each method of Methods *)
Operators ==
    <<{"POWER"}, {"SLASH", "STAR", "MODULO"}, {"MINUS", "PLUS"},
      {"LEFT_SHIFT", "RIGHT_SHIFT"}, {"GREATER", "GREATER_EQUAL", "LESS", "LESS_EQUAL"},
      {"BANG_EQUAL", "EQUAL_EQUAL"}, {"AND"}, {"XOR"}, {"OR"}, {"LOGICAL_AND"},
      {"LOGICAL_OR"}>>

Rank(method) == CHOOSE i \in DOMAIN Methods : Methods[i] = method

assignment(p) ==
    Try(binary(Rank("logicalOR"), p), LAMBDA expr :
    IF pMatch(expr.p, {"EQUAL"})
    THEN Try(assignment(pAdvance(expr.p)), LAMBDA value :
             assignmentTarget(expr.node, value.node, value.p))
    ELSE expr)

(* the loop of Methods[i] on the expr its first call returned, or on the *)
(* error of the call for an operand                                      *)
binaryLoop(expr, i) ==
    IF expr.err # "" \/ ~pMatch(expr.p, Operators[i]) THEN expr
    ELSE binaryLoop(Try(binary(i - 1, pAdvance(expr.p)), LAMBDA right :
                        Ok([t |-> IF Methods[i] \in {"logicalAnd", "logicalOR"}
                                  THEN "Logical" ELSE "Binary",
                            left |-> expr.node, operator |-> pPeek(expr.p).type,
                            right |-> right.node],
                           right.p)),
                    i)

(* the first of Methods[i], .., Methods[n] that has one of its operators at *)
(* the token after expr, n + 1 when none has: the loops of the methods      *)
(* before it hand expr on as it is                                          *)
looping(expr, i, n) ==
    IF \E j \in i..n : pMatch(expr.p, Operators[j])
    THEN CHOOSE j \in i..n : /\ pMatch(expr.p, Operators[j])
                             /\ \A k \in i..(j - 1) : ~pMatch(expr.p, Operators[k])
    ELSE n + 1

(* Methods[i], .., Methods[n], each on what the one before it returned *)
climb(expr, i, n) ==
    IF expr.err # "" \/ looping(expr, i, n) > n THEN expr
    ELSE climb(binaryLoop(expr, looping(expr, i, n)), looping(expr, i, n) + 1, n)

(* p.<Methods[n]>(); p.unary() for n = 0 *)
binary(n, p) == climb(unary(p), 1, n)

unary(p) ==
    IF pMatch(p, {"BANG", "MINUS", "NOT"})
    THEN Try(unary(pAdvance(p)), LAMBDA right : Ok(Unary(pPeek(p).type, right.node), right.p))
    ELSE call(p)

call(p) == callLoop(primary(p))

(* the loop of call on expr, or on the error of a pass *)
callLoop(expr) ==
    IF expr.err # "" THEN expr
    ELSE CASE pMatch(expr.p, {"LEFT_PAREN"}) ->
                  callLoop(finishCall(pAdvance(expr.p), expr.node))
           [] pMatch(expr.p, {"LEFT_BRACKET"}) ->
                  callLoop(Try(expression(pAdvance(expr.p)), LAMBDA index :
                           Try(pConsume(index.p, "RIGHT_BRACKET",
                                        "Expect ']' after array index."), LAMBDA close :
                           Ok(ArrayAccess(expr.node, index.node), close.p))))
           [] pMatch(expr.p, {"DOT"}) ->
                  callLoop(Try(pConsume(pAdvance(expr.p), "IDENTIFIER",
                                        "Expect property name after '.'."),
                               LAMBDA propName :
                           Ok(PropertyAccess(expr.node, propName.node.lexeme), propName.p)))
           [] OTHER -> expr

finishCall(p, callee) ==
    Try(IF ~pCheck(p, "RIGHT_PAREN") THEN arguments(p, <<>>) ELSE Ok(<<>>, p),
        LAMBDA args :
    Try(pConsume(args.p, "RIGHT_PAREN", "Expect ')' after arguments."), LAMBDA paren :
    Ok(Call(callee, args.node), paren.p)))

(* the loop of finishCall and of arrayLiteral *)
arguments(p, as) ==
    Try(expression(p), LAMBDA arg :
    IF pMatch(arg.p, {"COMMA"}) THEN arguments(pAdvance(arg.p), Append(as, arg.node))
    ELSE Ok(Append(as, arg.node), arg.p))

primary(p) ==
    CASE pMatch(p, {"FALSE"}) -> Ok(Literal(BoolV(FALSE)), pAdvance(p))
      [] pMatch(p, {"TRUE"}) -> Ok(Literal(BoolV(TRUE)), pAdvance(p))
      [] pMatch(p, {"NIL"}) -> Ok(Literal(NilV), pAdvance(p))
      [] pMatch(p, {"NUMBER", "STRING"}) -> Ok(Literal(pPeek(p).literal), pAdvance(p))
      [] pMatch(p, {"IDENTIFIER"}) -> Ok(Identifier(pPeek(p).lexeme), pAdvance(p))
      [] pMatch(p, {"LEFT_PAREN"}) ->
             Try(expression(pAdvance(p)), LAMBDA expr :
             Try(pConsume(expr.p, "RIGHT_PAREN", "Expect ')' after expression."),
                 LAMBDA close :
             Ok(Grouping(expr.node), close.p)))
      [] pMatch(p, {"LEFT_BRACKET"}) -> arrayLiteral(pAdvance(p))
      [] pMatch(p, {"LEFT_BRACE"}) -> objectLiteral(pAdvance(p))
      [] OTHER -> pError(p, "Unexpected token. Expect expression.")

objectLiteral(p) == objectLiteralLoop(p, [nm \in {} |-> NoNode])

objectLiteralLoop(p, properties) ==
    IF ~pCheck(p, "RIGHT_BRACE") /\ ~pIsAtEnd(p)
    THEN Try(pConsume(p, "IDENTIFIER", "Expect property name. Must be a string."),
             LAMBDA propName :
         Try(pConsume(propName.p, "COLON", "Expect ':' after property name."),
             LAMBDA colon :
         Try(expression(colon.p), LAMBDA propValue :
         IF pMatch(propValue.p, {"COMMA"})
         THEN objectLiteralLoop(pAdvance(propValue.p),
                                (propName.node.lexeme :> propValue.node) @@ properties)
         ELSE Try(pConsume(propValue.p, "RIGHT_BRACE", "Expect '}' after object literal."),
                  LAMBDA brace :
              Ok(ObjectLiteral((propName.node.lexeme :> propValue.node) @@ properties),
                 brace.p)))))
    ELSE Try(pConsume(p, "RIGHT_BRACE", "Expect '}' after object literal."), LAMBDA brace :
             Ok(ObjectLiteral(properties), brace.p))

arrayLiteral(p) ==
    Try(IF ~pCheck(p, "RIGHT_BRACKET") THEN arguments(p, <<>>) ELSE Ok(<<>>, p),
        LAMBDA elements :
    Try(pConsume(elements.p, "RIGHT_BRACKET", "Expect ']' after array elements."),
        LAMBDA close :
    Ok(ArrayLiteral(elements.node), close.p)))

(* the front end as main.run drives it *)
FrontStep(ph, cur, stmts, err, reps, interp) ==
    /\ phase' = ph
    /\ pcurrent' = cur
    /\ statements' = stmts
    /\ parseError' = err
    /\ reports' = reports \o reps
    /\ hadError' = (hadError \/ reps # <<>>)
    /\ interpreted' = interp
    /\ UNCHANGED <<source, start, current, line, tokens, evalVars>>

(* one pass of the loop of Parse *)
ParseDeclaration ==
    /\ phase = "parse"
    /\ LET p == [tokens |-> tokens, current |-> pcurrent, reps |-> <<>>]
       IN /\ ~pIsAtEnd(p)
          /\ LET stmt == declaration(p)
             IN IF stmt.err # ""
                THEN FrontStep("parsed", stmt.p.current, <<>>, stmt.err, stmt.p.reps,
                               interpreted)
                ELSE FrontStep("parse", stmt.p.current, Append(statements, stmt.node),
                               parseError, stmt.p.reps, interpreted)

ParseReturn ==
    /\ phase = "parse"
    /\ pIsAtEnd([tokens |-> tokens, current |-> pcurrent, reps |-> <<>>])
    /\ FrontStep("parsed", pcurrent, statements, parseError, <<>>, interpreted)

(* main.run after Parse: return when utils.HadError, else Interpret *)
RunReturn ==
    /\ phase = "parsed"
    /\ hadError
    /\ FrontStep("returned", pcurrent, statements, parseError, <<>>, interpreted)

RunInterpret ==
    /\ phase = "parsed"
    /\ ~hadError
    /\ phase' = "interpret"
    /\ interpreted' = statements
    /\ prog' = statements
    /\ UNCHANGED <<source, start, current, line, tokens, hadError, reports, pcurrent,
                   statements, parseError, pcTop, returned, results, ctrl, stack, envs,
                   heap, out, hadRuntimeError, lastError, calls>>

-----------------------------------------------------------------------------
(* Token sequences as ScanTokens hands them to NewParser.  A token built  *)
(* here carries its lexeme as one string and stands on line 1.            *)

lexemeOf ==
    [tt \in {"LEFT_PAREN", "RIGHT_PAREN", "LEFT_BRACE", "RIGHT_BRACE", "LEFT_BRACKET",
             "RIGHT_BRACKET", "COMMA", "DOT", "MINUS", "PLUS", "SEMICOLON", "SLASH",
             "STAR", "MODULO", "POWER", "BANG", "BANG_EQUAL", "EQUAL", "EQUAL_EQUAL",
             "GREATER", "GREATER_EQUAL", "LESS", "LESS_EQUAL", "AND", "OR", "XOR",
             "LEFT_SHIFT", "RIGHT_SHIFT", "LOGICAL_AND", "LOGICAL_OR", "VAR", "FUN",
             "FOR", "IF", "PRINT", "TRUE", "FALSE", "NIL", "WHILE", "BREAK", "CONTINUE",
             "RETURN", "ELSE", "NOT"} |->
     CASE tt = "LEFT_PAREN" -> "(" [] tt = "RIGHT_PAREN" -> ")"
       [] tt = "LEFT_BRACE" -> "{" [] tt = "RIGHT_BRACE" -> "}"
       [] tt = "LEFT_BRACKET" -> "[" [] tt = "RIGHT_BRACKET" -> "]"
       [] tt = "COMMA" -> "," [] tt = "DOT" -> "." [] tt = "MINUS" -> "-"
       [] tt = "PLUS" -> "+" [] tt = "SEMICOLON" -> ";" [] tt = "SLASH" -> "/"
       [] tt = "STAR" -> "*" [] tt = "MODULO" -> "%" [] tt = "POWER" -> "**"
       [] tt = "BANG" -> "!" [] tt = "BANG_EQUAL" -> "!=" [] tt = "EQUAL" -> "="
       [] tt = "EQUAL_EQUAL" -> "==" [] tt = "GREATER" -> ">"
       [] tt = "GREATER_EQUAL" -> ">=" [] tt = "LESS" -> "<" [] tt = "LESS_EQUAL" -> "<="
       [] tt = "AND" -> "&" [] tt = "OR" -> "|" [] tt = "XOR" -> "^"
       [] tt = "LEFT_SHIFT" -> "<<" [] tt = "RIGHT_SHIFT" -> ">>"
       [] tt = "LOGICAL_AND" -> "&&" [] tt = "LOGICAL_OR" -> "||"
       [] tt = "VAR" -> "var" [] tt = "FUN" -> "fun" [] tt = "FOR" -> "for"
       [] tt = "IF" -> "if" [] tt = "PRINT" -> "print" [] tt = "TRUE" -> "true"
       [] tt = "FALSE" -> "false" [] tt = "NIL" -> "nil" [] tt = "WHILE" -> "while"
       [] tt = "BREAK" -> "break" [] tt = "CONTINUE" -> "continue"
       [] tt = "RETURN" -> "return" [] tt = "ELSE" -> "else" [] tt = "NOT" -> "~"]

Tok(tt) == NewToken(tt, lexemeOf[tt], [k |-> "nil"], 1)

Name(nm) == NewToken("IDENTIFIER", nm, [k |-> "nil"], 1)

Number(n) == NewToken("NUMBER", ToString(n), NumV(n), 1)

EOFToken == NewToken("EOF", "", [k |-> "nil"], 1)

String(s) == NewToken("STRING", "\"" \o s \o "\"", RunesV(<<s>>), 1)

(* the token of a string literal of the given runes, "" for none *)
StringOfRunes(rs) ==
    NewToken("STRING",
             "\"" \o (IF rs = <<>> THEN "" ELSE IF Len(rs) = 1 THEN rs[1]
                       ELSE rs[1] \o rs[2]) \o "\"",
             RunesV(rs), 1)

(* the token of a word of a program: a keyword or an operator by its    *)
(* lexeme, a digit as a number, any other word as an identifier         *)
Word(w) ==
    IF \E tt \in DOMAIN lexemeOf : lexemeOf[tt] = w
    THEN Tok(CHOOSE tt \in DOMAIN lexemeOf : lexemeOf[tt] = w)
    ELSE IF w \in {"0", "1", "2", "3", "4", "5", "6", "7", "8", "9"}
         THEN Number(DigitValue(w))
    ELSE Name(w)

Words(ws) == [i \in 1..Len(ws) |-> Word(ws[i])]

(* Parse on a parser: the statements, none when a declaration fails *)
RECURSIVE ParseLoop(_, _)
ParseLoop(p, statments) ==
    IF pIsAtEnd(p) THEN statments
    ELSE LET stmt == declaration(p)
         IN IF stmt.err # "" THEN <<>> ELSE ParseLoop(stmt.p, Append(statments, stmt.node))

(* the statements main.run hands to Interpret for a token sequence *)
Parse(ts) == ParseLoop(NewParser(ts \o <<EOFToken>>), <<>>)

-----------------------------------------------------------------------------
(* Environment *)

EmptyVals == [nm \in {} |-> NilV]

NewEnvironmentWithParent(p) == [vals |-> EmptyVals, parent |-> p]

(* variant: a scope with a parent scope of the program defines the name there *)
DefineInParent(E, e, nm, v) ==
    IF E[e].parent > 1 THEN [E EXCEPT ![E[e].parent].vals = (nm :> v) @@ @]
    ELSE [E EXCEPT ![e].vals = (nm :> v) @@ @]

Define(E, e, nm, v) == [E EXCEPT ![e].vals = (nm :> v) @@ @]

RECURSIVE Get(_, _, _)
Get(E, e, nm) ==
    IF nm \in DOMAIN E[e].vals THEN [ok |-> TRUE, val |-> E[e].vals[nm]]
    ELSE IF E[e].parent # 0 THEN Get(E, E[e].parent, nm)
    ELSE [ok |-> FALSE, val |-> NilV]

(* variant: the lookup walks the parent chain, as Get does *)
GetInAnyScope(E, e, nm) == Get(E, e, nm)

GetInCurrentScope(E, e, nm) ==
    IF nm \in DOMAIN E[e].vals THEN [ok |-> TRUE, val |-> E[e].vals[nm]]
    ELSE [ok |-> FALSE, val |-> NilV]

(* variant: a name no scope holds is created in the outermost scope *)
RECURSIVE AssignOrDefine(_, _, _, _)
AssignOrDefine(E, e, nm, v) ==
    IF nm \in DOMAIN E[e].vals THEN [envs |-> [E EXCEPT ![e].vals[nm] = v], ok |-> TRUE]
    ELSE IF E[e].parent # 0 THEN AssignOrDefine(E, E[e].parent, nm, v)
    ELSE [envs |-> Define(E, e, nm, v), ok |-> TRUE]

RECURSIVE Assign(_, _, _, _)
Assign(E, e, nm, v) ==
    IF nm \in DOMAIN E[e].vals THEN [envs |-> [E EXCEPT ![e].vals[nm] = v], ok |-> TRUE]
    ELSE IF E[e].parent # 0 THEN Assign(E, E[e].parent, nm, v)
    ELSE [envs |-> E, ok |-> FALSE]

(* The built-in table of NewInterpreter *)
NativeNames == {"clock", "len", "append", "remove", "key_remove", "object_keys",
                "object_values", "abs", "sqrt", "pow", "sin", "cos", "tan",
                "min", "max", "round", "input"}

Globals == [vals |-> [nm \in NativeNames |-> NativeV(nm)], parent |-> 0]

-----------------------------------------------------------------------------
(* Helper functions of interpreter.go *)

IsNumber(v) == v.k \in {"float", "int"}

(* strconv.ParseFloat succeeds: of the texts it accepts the runs of digits *)
(* are modelled; the strings of the programs here hold no sign, point or  *)
(* exponent and do not spell an infinity or a NaN                          *)
ParsesAsFloat(rs) ==
    /\ rs # <<>>
    /\ \A i \in 1..Len(rs) :
           rs[i] \in {"0", "1", "2", "3", "4", "5", "6", "7", "8", "9"}

(* float64, int64, and a Go string that reads as a number after the      *)
(* Bengali digits are replaced; a string literal is a []rune and is none *)
toNumber(v) ==
    CASE IsNumber(v) -> [ok |-> TRUE, n |-> v.n]
      [] v.k = "string" /\ ParsesAsFloat(convertBanglaDigitsToASCII(v.rs)) ->
             [ok |-> TRUE, n |-> WholeValue(convertBanglaDigitsToASCII(v.rs))]
      [] OTHER -> [ok |-> FALSE, n |-> 0]

isTruthy(v) ==
    CASE v.k = "nil" -> FALSE
      [] v.k = "bool" -> v.b
      [] v.k \in {"float", "int", "goint"} -> v.n # 0
      [] v.k = "string" -> v.rs # <<>>
      [] OTHER -> TRUE

(* a == b on interface{} values: operands of one dynamic type that is not *)
(* comparable ([]rune, []interface{}, map) make the comparison panic;     *)
(* operands of different dynamic types are unequal.  Two function values  *)
(* are one pointer when they are one record: the programs here evaluate a *)
(* declaration once.                                                      *)
isEqualPanics(a, b) == a.k = b.k /\ a.k \in {"runes", "array", "object"}

isEqual(a, b) == a = b

(* fmt.Sprintf("%v") of an integral number that is not negative: its digits *)
RECURSIVE FormatNumber(_)
FormatNumber(n) ==
    LET digit == <<"0", "1", "2", "3", "4", "5", "6", "7", "8", "9">>
    IN IF n < 10 THEN <<digit[n + 1]>>
       ELSE Append(FormatNumber(n \div 10), digit[(n % 10) + 1])

stringifyOperand(v) ==
    CASE IsNumber(v) -> [ok |-> TRUE, rs |-> FormatNumber(v.n)]
      [] v.k \in {"runes", "string"} -> [ok |-> TRUE, rs |-> v.rs]
      [] OTHER -> [ok |-> FALSE, rs |-> <<>>]

(* the sums of numbers and the concatenations: the left operand selects *)
(* the case, and a case that returns nothing falls to the last report   *)
handleAddition(l, r) ==
    CASE IsNumber(l) /\ toNumber(r).ok ->
             [val |-> NumV(toNumber(l).n + toNumber(r).n), err |-> ""]
      [] IsNumber(l) /\ ~toNumber(r).ok /\ r.k \in {"runes", "string"} ->
             [val |-> StringV(FormatNumber(toNumber(l).n) \o r.rs), err |-> ""]
      [] l.k \in {"runes", "string"} /\ stringifyOperand(r).ok ->
             [val |-> StringV(l.rs \o stringifyOperand(r).rs), err |-> ""]
      [] l.k \in {"runes", "string"} /\ ~stringifyOperand(r).ok ->
             [val |-> NilV, err |-> "Right operand must be a string or number."]
      [] OTHER -> [val |-> NilV, err |-> "Operands must be numbers or strings."]

(* the quotients of the programs here are integral *)
handleArithmetic(l, op, r) ==
    CASE ~toNumber(l).ok -> [val |-> NilV, err |-> "Left operand must be a number."]
      [] toNumber(l).ok /\ ~toNumber(r).ok ->
             [val |-> NilV, err |-> "Right operand must be a number."]
      [] OTHER ->
             CASE op = "MINUS" -> [val |-> NumV(toNumber(l).n - toNumber(r).n), err |-> ""]
               [] op = "STAR" -> [val |-> NumV(toNumber(l).n * toNumber(r).n), err |-> ""]
               [] op = "SLASH" /\ toNumber(r).n = 0 ->
                      [val |-> NilV, err |-> "Division by zero."]
               [] op = "SLASH" /\ toNumber(r).n # 0 ->
                      [val |-> NumV(toNumber(l).n \div toNumber(r).n), err |-> ""]

handleEquality(l, op, r) ==
    IF op = "BANG_EQUAL" THEN [val |-> BoolV(~isEqual(l, r)), err |-> ""]
    ELSE [val |-> BoolV(isEqual(l, r)), err |-> ""]

handleComparison(l, op, r) ==
    CASE ~toNumber(l).ok -> [val |-> NilV, err |-> "Left operand must be a number."]
      [] toNumber(l).ok /\ ~toNumber(r).ok ->
             [val |-> NilV, err |-> "Right operand must be a number."]
      [] OTHER ->
             CASE op = "GREATER" -> [val |-> BoolV(toNumber(l).n > toNumber(r).n), err |-> ""]
               [] op = "GREATER_EQUAL" ->
                      [val |-> BoolV(toNumber(l).n >= toNumber(r).n), err |-> ""]
               [] op = "LESS" -> [val |-> BoolV(toNumber(l).n < toNumber(r).n), err |-> ""]
               [] op = "LESS_EQUAL" ->
                      [val |-> BoolV(toNumber(l).n <= toNumber(r).n), err |-> ""]

(* toInt64 on the values of the model: the numbers are integral, and so is *)
(* a Go string that reads as a number                                      *)
toInt64(v) == toNumber(v)

(* math.Pow for an exponent that is not negative *)
RECURSIVE Pow(_, _)
Pow(x, y) == IF y = 0 THEN 1 ELSE x * Pow(x, y - 1)

(* math.Mod: the result has the sign of x *)
Mod(x, y) ==
    LET abs(n) == IF n < 0 THEN -n ELSE n
    IN IF x < 0 THEN -(abs(x) % abs(y)) ELSE x % abs(y)

(* the POWER and MODULO cases of evaluateBinary *)
handlePowerModulo(l, op, r) ==
    CASE ~toNumber(l).ok -> [val |-> NilV, err |-> "Left operand must be a number."]
      [] toNumber(l).ok /\ ~toNumber(r).ok ->
             [val |-> NilV, err |-> "Right operand must be a number."]
      [] OTHER ->
             CASE op = "POWER" -> [val |-> NumV(Pow(toNumber(l).n, toNumber(r).n)), err |-> ""]
               [] op = "MODULO" /\ toNumber(r).n = 0 ->
                      [val |-> NilV, err |-> "Division by zero."]
               [] op = "MODULO" /\ toNumber(r).n # 0 ->
                      [val |-> NumV(Mod(toNumber(l).n, toNumber(r).n)), err |-> ""]

(* & | ^ on int64 in two's complement, bit by bit from the lowest *)
RECURSIVE Bitwise(_, _, _)
Bitwise(op, a, b) ==
    LET bit(x, y) == CASE op = "AND" -> x = 1 /\ y = 1
                       [] op = "OR" -> x = 1 \/ y = 1
                       [] op = "XOR" -> x # y
    IN IF a \in {0, -1} /\ b \in {0, -1}
       THEN IF bit(a % 2, b % 2) THEN -1 ELSE 0
       ELSE 2 * Bitwise(op, a \div 2, b \div 2) + (IF bit(a % 2, b % 2) THEN 1 ELSE 0)

RECURSIVE Pow2(_)
Pow2(n) == IF n = 0 THEN 1 ELSE 2 * Pow2(n - 1)

(* the results are int64; shifts stay within 64 bits in the programs here *)
handleBitwise(l, op, r) ==
    IF ~toInt64(l).ok THEN [val |-> NilV, err |-> "Left operand must be an integer."]
    ELSE IF ~toInt64(r).ok THEN [val |-> NilV, err |-> "Right operand must be an integer."]
    ELSE IF op = "LEFT_SHIFT"
         THEN [val |-> IntV(toInt64(l).n * Pow2(toInt64(r).n)), err |-> ""]
    ELSE IF op = "RIGHT_SHIFT"
         THEN [val |-> IntV(toInt64(l).n \div Pow2(toInt64(r).n)), err |-> ""]
    ELSE [val |-> IntV(Bitwise(op, toInt64(l).n, toInt64(r).n)), err |-> ""]

(* the run-time panics of the operators: == and != on uncomparable values, *)
(* a shift by a negative count                                             *)
evaluateBinaryPanics(l, op, r) ==
    \/ op \in {"EQUAL_EQUAL", "BANG_EQUAL"} /\ isEqualPanics(l, r)
    \/ /\ op \in {"LEFT_SHIFT", "RIGHT_SHIFT"}
       /\ toInt64(l).ok /\ toInt64(r).ok /\ toInt64(r).n < 0

evaluateBinary(had, l, op, r) ==
    CASE had -> [val |-> NilV, err |-> ""]
      [] ~had /\ op = "PLUS" -> handleAddition(l, r)
      [] ~had /\ op \in {"MINUS", "STAR", "SLASH"} -> handleArithmetic(l, op, r)
      [] ~had /\ op \in {"EQUAL_EQUAL", "BANG_EQUAL"} -> handleEquality(l, op, r)
      [] ~had /\ op \in {"GREATER", "GREATER_EQUAL", "LESS", "LESS_EQUAL"} ->
             handleComparison(l, op, r)
      [] ~had /\ op \in {"AND", "OR", "XOR", "LEFT_SHIFT", "RIGHT_SHIFT"} ->
             handleBitwise(l, op, r)
      [] ~had /\ op \in {"POWER", "MODULO"} -> handlePowerModulo(l, op, r)
      [] OTHER -> [val |-> NilV, err |-> "Unknown binary operator: " \o op]

(* string(rs), written as one text *)
RECURSIVE Text1(_)
Text1(rs) == IF rs = <<>> THEN "" ELSE rs[1] \o Text1(Tail(rs))

(* the message of the error toNumber and toInt64 return: %q of a string, *)
(* %T of another value; of the built-ins len and remove are operands     *)
ExpectedGot(what, v) ==
    "expected " \o what \o ", got "
    \o (CASE v.k = "nil" -> "<nil>" [] v.k = "bool" -> "bool" [] v.k = "runes" -> "[]int32"
           [] v.k = "string" -> "string \"" \o Text1(v.rs) \o "\""
           [] v.k = "array" -> "[]interface {}"
           [] v.k = "goint" -> "int" [] v.k = "fn" -> "*interpreter.Function"
           [] v.k = "native" /\ v.name = "len" -> "interpreter.NativeLenFn"
           [] OTHER -> "interpreter.NativeRemoveFn")

(* -value is a float64, !value a bool, ^value an int64 *)
evaluateUnary(had, op, right) ==
    CASE had -> [val |-> NilV, err |-> ""]
      [] ~had /\ op = "MINUS" ->
             IF toNumber(right).ok THEN [val |-> NumV(-toNumber(right).n), err |-> ""]
             ELSE [val |-> NilV, err |-> ExpectedGot("a number", right)]
      [] ~had /\ op = "BANG" -> [val |-> BoolV(~isTruthy(right)), err |-> ""]
      [] ~had /\ op = "NOT" ->
             IF toInt64(right).ok THEN [val |-> IntV(-toInt64(right).n - 1), err |-> ""]
             ELSE [val |-> NilV, err |-> ExpectedGot("an integer", right)]
      [] OTHER -> [val |-> NilV, err |-> "Unknown unary operator: " \o op]

-----------------------------------------------------------------------------
(* The machine *)

Ev(n, e) == [mode |-> "eval", node |-> n, env |-> e]
Ret(v, s) == [mode |-> "ret", val |-> v, sig |-> s]
Idle == [mode |-> "idle"]

Frame(n, e, st, i, vs) == [node |-> n, env |-> e, stage |-> st, i |-> i, vals |-> vs]

Top == stack[Len(stack)]
Pop == SubSeq(stack, 1, Len(stack) - 1)
Push(f) == Append(stack, f)
SetTop(f) == [stack EXCEPT ![Len(stack)] = f]

Entering(t) == ctrl.mode = "eval" /\ ctrl.node.t = t
Resuming(t) == ctrl.mode = "ret" /\ stack # <<>> /\ Top.stage # "fbody" /\ Top.node.t = t

(* a step that only moves control *)
Pure(c, s) ==
    /\ ctrl' = c
    /\ stack' = s
    /\ UNCHANGED <<frontVars, prog, pcTop, returned, results, envs, heap, out,
                   hadRuntimeError, lastError, calls>>

(* utils.RuntimeError followed by a move of control *)
Fail(msg, c, s) ==
    /\ ctrl' = c
    /\ stack' = s
    /\ hadRuntimeError' = TRUE
    /\ lastError' = msg
    /\ UNCHANGED <<frontVars, prog, pcTop, returned, results, envs, heap, out, calls>>

(* a step that changes the environments *)
WithEnvs(E, c, s) ==
    /\ ctrl' = c
    /\ stack' = s
    /\ envs' = E
    /\ UNCHANGED <<frontVars, prog, pcTop, returned, results, heap, out,
                   hadRuntimeError, lastError, calls>>

(* a step that changes the backing arrays *)
WithHeap(H, c, s) ==
    /\ ctrl' = c
    /\ stack' = s
    /\ heap' = H
    /\ UNCHANGED <<frontVars, prog, pcTop, returned, results, envs, out,
                   hadRuntimeError, lastError, calls>>

(* a run-time panic: nothing recovers it, the process ends *)
Panic(msg) ==
    /\ ctrl' = Idle
    /\ stack' = <<>>
    /\ returned' = "panic"
    /\ lastError' = msg
    /\ UNCHANGED <<frontVars, prog, pcTop, results, envs, heap, out, hadRuntimeError,
                   calls>>

Nil == Ret(NilV, NoSignal)

-----------------------------------------------------------------------------
(* Expressions *)

EvalLiteral ==
    /\ Entering("Literal")
    /\ Pure(Ret(ctrl.node.value, NoSignal), stack)

(* return i.eval(e.Expression, env, isRepl) *)
EvalGrouping ==
    /\ Entering("Grouping")
    /\ Pure(Ev(ctrl.node.expression, ctrl.env), stack)

EvalIdentifier ==
    /\ Entering("Identifier")
    /\ LET g == Get(envs, ctrl.env, ctrl.node.name)
       IN IF g.ok THEN Pure(Ret(g.val, NoSignal), stack)
          ELSE Fail("Variable " \o ctrl.node.name \o " is not defined.", Nil, stack)

EvalBinary ==
    IF Entering("Binary")
    THEN Pure(Ev(ctrl.node.left, ctrl.env),
              Push(Frame(ctrl.node, ctrl.env, "left", 0, <<>>)))
    ELSE /\ Resuming("Binary")
         /\ IF ctrl.sig.type # ControlFlowNone THEN Pure(Ret(NilV, ctrl.sig), Pop)
            ELSE IF hadRuntimeError THEN Pure(Nil, Pop)
            ELSE IF Top.stage = "left"
                 THEN Pure(Ev(Top.node.right, Top.env),
                           SetTop([Top EXCEPT !.stage = "right", !.vals = <<ctrl.val>>]))
            ELSE IF evaluateBinaryPanics(Top.vals[1], Top.node.operator, ctrl.val)
                 THEN Panic("panic: runtime error")
            ELSE LET r == evaluateBinary(hadRuntimeError, Top.vals[1],
                                         Top.node.operator, ctrl.val)
                 IN IF r.err # "" THEN Fail(r.err, Nil, Pop)
                    ELSE Pure(Ret(r.val, NoSignal), Pop)

(* right, then evaluateUnary unless a signal or a runtime error came back *)
EvalUnary ==
    IF Entering("Unary")
    THEN Pure(Ev(ctrl.node.right, ctrl.env),
              Push(Frame(ctrl.node, ctrl.env, "right", 0, <<>>)))
    ELSE /\ Resuming("Unary")
         /\ IF ctrl.sig.type # ControlFlowNone THEN Pure(Ret(NilV, ctrl.sig), Pop)
            ELSE IF hadRuntimeError THEN Pure(Nil, Pop)
            ELSE LET r == evaluateUnary(hadRuntimeError, Top.node.operator, ctrl.val)
                 IN IF r.err # "" THEN Fail(r.err, Nil, Pop)
                    ELSE Pure(Ret(r.val, NoSignal), Pop)

(* a Logical that evaluates its right operand whatever the left one is *)
EvalLogicalEager ==
    IF Entering("Logical")
    THEN Pure(Ev(ctrl.node.left, ctrl.env),
              Push(Frame(ctrl.node, ctrl.env, "left", 0, <<>>)))
    ELSE /\ Resuming("Logical")
         /\ IF ctrl.sig.type # ControlFlowNone THEN Pure(Ret(NilV, ctrl.sig), Pop)
            ELSE Pure(Ev(Top.node.right, Top.env), Pop)

(* left; the operator and isTruthy(left) decide between returning left *)
(* and return i.eval(e.Right, env, isRepl)                              *)
EvalLogical ==
    IF Entering("Logical")
    THEN Pure(Ev(ctrl.node.left, ctrl.env),
              Push(Frame(ctrl.node, ctrl.env, "left", 0, <<>>)))
    ELSE /\ Resuming("Logical")
         /\ IF ctrl.sig.type # ControlFlowNone THEN Pure(Ret(NilV, ctrl.sig), Pop)
            ELSE IF Top.node.operator = "LOGICAL_OR" /\ isTruthy(ctrl.val)
                 THEN Pure(Ret(ctrl.val, NoSignal), Pop)
            ELSE IF Top.node.operator # "LOGICAL_OR" /\ ~isTruthy(ctrl.val)
                 THEN Pure(Ret(ctrl.val, NoSignal), Pop)
            ELSE Pure(Ev(Top.node.right, Top.env), Pop)

(* env.Assign(e.Name, val) and the return of the AssignmentStmt case *)
AssignStep(e, nm, v, s) ==
    LET a == Assign(envs, e, nm, v)
    IN IF a.ok THEN WithEnvs(a.envs, Ret(v, NoSignal), s)
       ELSE Fail("Undefined variable '" \o nm \o "'.", Ret(v, NoSignal), s)

EvalAssignmentStmt ==
    IF Entering("AssignmentStmt")
    THEN Pure(Ev(ctrl.node.value, ctrl.env),
              Push(Frame(ctrl.node, ctrl.env, "value", 0, <<>>)))
    ELSE /\ Resuming("AssignmentStmt")
         /\ IF ctrl.sig.type # ControlFlowNone THEN Pure(Ret(NilV, ctrl.sig), Pop)
            ELSE IF hadRuntimeError THEN Pure(Nil, Pop)
            ELSE AssignStep(Top.env, Top.node.name, ctrl.val, Pop)

-----------------------------------------------------------------------------
(* Statements *)

(* GetInCurrentScope / Define at the end of the VarStmt case *)
DefineStep(e, nm, v, s) ==
    IF GetInCurrentScope(envs, e, nm).ok
    THEN Fail("Cannot redeclare variable " \o nm \o ".", Nil, s)
    ELSE WithEnvs(Define(envs, e, nm, v), Nil, s)

EvalVarStmt ==
    IF Entering("VarStmt")
    THEN IF ctrl.node.initializer # NoNode
         THEN Pure(Ev(ctrl.node.initializer, ctrl.env),
                   Push(Frame(ctrl.node, ctrl.env, "init", 0, <<>>)))
         ELSE DefineStep(ctrl.env, ctrl.node.name, NilV, stack)
    ELSE /\ Resuming("VarStmt")
         /\ IF ctrl.sig.type # ControlFlowNone THEN Pure(Ret(NilV, ctrl.sig), Pop)
            ELSE IF hadRuntimeError THEN Pure(Nil, Pop)
            ELSE DefineStep(Top.env, Top.node.name, ctrl.val, Pop)

EvalPrintStatement ==
    IF Entering("PrintStatement")
    THEN Pure(Ev(ctrl.node.expression, ctrl.env),
              Push(Frame(ctrl.node, ctrl.env, "expr", 0, <<>>)))
    ELSE /\ Resuming("PrintStatement")
         /\ IF ctrl.sig.type # ControlFlowNone THEN Pure(Ret(ctrl.val, ctrl.sig), Pop)
            ELSE IF hadRuntimeError THEN Pure(Nil, Pop)
            ELSE /\ Len(out) < MaxOut
                 /\ out' = Append(out, ctrl.val)
                 /\ ctrl' = Nil
                 /\ stack' = Pop
                 /\ UNCHANGED <<frontVars, prog, pcTop, returned, results, envs, heap,
                                hadRuntimeError, lastError, calls>>

EvalExpressionStatement ==
    IF Entering("ExpressionStatement")
    THEN Pure(Ev(ctrl.node.expression, ctrl.env),
              Push(Frame(ctrl.node, ctrl.env, "expr", 0, <<>>)))
    ELSE /\ Resuming("ExpressionStatement")
         /\ IF ctrl.sig.type # ControlFlowNone THEN Pure(Ret(NilV, ctrl.sig), Pop)
            ELSE Pure(Ret(ctrl.val, NoSignal), Pop)

EvalBlockStmt ==
    IF Entering("BlockStmt")
    THEN /\ Len(envs) < MaxEnvs
         /\ LET newEnv == Len(envs) + 1
                E == Append(envs, NewEnvironmentWithParent(ctrl.env))
            IN IF ctrl.node.block = <<>> THEN WithEnvs(E, Nil, stack)
               ELSE WithEnvs(E, Ev(ctrl.node.block[1], newEnv),
                             Push(Frame(ctrl.node, newEnv, "stmt", 1, <<>>)))
    ELSE /\ Resuming("BlockStmt")
         /\ IF ctrl.sig.type # ControlFlowNone THEN Pure(Ret(NilV, ctrl.sig), Pop)
            ELSE IF hadRuntimeError THEN Pure(Nil, Pop)
            ELSE IF Top.i < Len(Top.node.block)
                 THEN Pure(Ev(Top.node.block[Top.i + 1], Top.env),
                           SetTop([Top EXCEPT !.i = @ + 1]))
            ELSE Pure(Nil, Pop)

EvalIfStmt ==
    IF Entering("IfStmt")
    THEN Pure(Ev(ctrl.node.condition, ctrl.env),
              Push(Frame(ctrl.node, ctrl.env, "cond", 0, <<>>)))
    ELSE /\ Resuming("IfStmt")
         /\ IF ctrl.sig.type # ControlFlowNone THEN Pure(Ret(NilV, ctrl.sig), Pop)
            ELSE IF Top.stage = "branch" THEN Pure(Nil, Pop)
            ELSE IF isTruthy(ctrl.val)
                 THEN Pure(Ev(Top.node.thenBranch, Top.env),
                           SetTop([Top EXCEPT !.stage = "branch"]))
            ELSE IF Top.node.elseBranch # NoNode
                 THEN Pure(Ev(Top.node.elseBranch, Top.env),
                           SetTop([Top EXCEPT !.stage = "branch"]))
            ELSE Pure(Nil, Pop)

EvalBreakStmt ==
    /\ Entering("BreakStmt")
    /\ Pure(Ret(NilV, Signal(ControlFlowBreak, NilV)), stack)

EvalContinueStmt ==
    /\ Entering("ContinueStmt")
    /\ Pure(Ret(NilV, Signal(ControlFlowContinue, NilV)), stack)

EvalReturn ==
    IF Entering("Return")
    THEN IF ctrl.node.value # NoNode
         THEN Pure(Ev(ctrl.node.value, ctrl.env),
                   Push(Frame(ctrl.node, ctrl.env, "value", 0, <<>>)))
         ELSE Pure(Ret(NilV, Signal(ControlFlowReturn, NilV)), stack)
    ELSE /\ Resuming("Return")
         /\ IF ctrl.sig.type # ControlFlowNone THEN Pure(Ret(NilV, ctrl.sig), Pop)
            ELSE Pure(Ret(NilV, Signal(ControlFlowReturn, ctrl.val)), Pop)

-----------------------------------------------------------------------------
(* Loops *)

(* variant: any signal of the body ends the loop *)
WhileAfterBodyAnySignal(sig) ==
    IF sig.type # ControlFlowNone THEN "break" ELSE "loop"

(* what the While case does with the signal of its body *)
WhileAfterBody(sig) ==
    IF sig.type = ControlFlowBreak THEN "break" ELSE "loop"

EvalWhile ==
    IF Entering("While")
    THEN Pure(Ev(ctrl.node.condition, ctrl.env),
              Push(Frame(ctrl.node, ctrl.env, "cond", 0, <<>>)))
    ELSE /\ Resuming("While")
         /\ IF Top.stage = "cond"
            THEN IF ctrl.sig.type # ControlFlowNone THEN Pure(Ret(NilV, ctrl.sig), Pop)
                 ELSE IF ~isTruthy(ctrl.val) THEN Pure(Nil, Pop)
                 ELSE Pure(Ev(Top.node.body, Top.env), SetTop([Top EXCEPT !.stage = "body"]))
            ELSE IF WhileAfterBody(ctrl.sig) = "break" THEN Pure(Nil, Pop)
                 ELSE Pure(Ev(Top.node.condition, Top.env),
                           SetTop([Top EXCEPT !.stage = "cond"]))

(* what the ForStmt case does with the signal of its body *)
ForAfterBody(sig) ==
    IF sig.type = ControlFlowBreak THEN "break"
    ELSE IF sig.type = ControlFlowContinue THEN "increment"
    ELSE IF sig.type # ControlFlowNone THEN "return"
    ELSE "increment"

(* the head of the for { } of the ForStmt case; base is the stack below the loop *)
ForCondition(n, e, base) ==
    IF n.condition # NoNode
    THEN Pure(Ev(n.condition, e), Append(base, Frame(n, e, "cond", 0, <<>>)))
    ELSE Pure(Ev(n.body, e), Append(base, Frame(n, e, "body", 0, <<>>)))

EvalForStmt ==
    IF Entering("ForStmt")
    THEN IF ctrl.node.initializer # NoNode
         THEN Pure(Ev(ctrl.node.initializer, ctrl.env),
                   Push(Frame(ctrl.node, ctrl.env, "init", 0, <<>>)))
         ELSE ForCondition(ctrl.node, ctrl.env, stack)
    ELSE /\ Resuming("ForStmt")
         /\ IF Top.stage = "init"
            THEN IF ctrl.sig.type # ControlFlowNone THEN Pure(Ret(NilV, ctrl.sig), Pop)
                 ELSE ForCondition(Top.node, Top.env, Pop)
            ELSE IF Top.stage = "cond"
            THEN IF ctrl.sig.type # ControlFlowNone THEN Pure(Ret(NilV, ctrl.sig), Pop)
                 ELSE IF ~isTruthy(ctrl.val) THEN Pure(Nil, Pop)
                 ELSE Pure(Ev(Top.node.body, Top.env), SetTop([Top EXCEPT !.stage = "body"]))
            ELSE IF Top.stage = "body"
            THEN IF ForAfterBody(ctrl.sig) = "break" THEN Pure(Nil, Pop)
                 ELSE IF ForAfterBody(ctrl.sig) = "return" THEN Pure(Ret(NilV, ctrl.sig), Pop)
                 ELSE IF Top.node.increment # NoNode
                      THEN Pure(Ev(Top.node.increment, Top.env),
                                SetTop([Top EXCEPT !.stage = "inc"]))
                 ELSE ForCondition(Top.node, Top.env, Pop)
            ELSE IF ctrl.sig.type # ControlFlowNone THEN Pure(Ret(NilV, ctrl.sig), Pop)
                 ELSE ForCondition(Top.node, Top.env, Pop)

-----------------------------------------------------------------------------
(* Functions and calls *)

(* NewFunction(e, NewEnvironmentWithParent(env)); env.Define(name, function) *)
EvalFunctionStmt ==
    /\ Entering("FunctionStmt")
    /\ Len(envs) < MaxEnvs
    /\ LET closure == Len(envs) + 1
           E == Append(envs, NewEnvironmentWithParent(ctrl.env))
       IN WithEnvs(Define(E, ctrl.env, ctrl.node.name, FnV(ctrl.node, closure)), Nil, stack)

(* variant: every built-in takes any number of arguments *)
NativeArityVariadic(nm) == -1

NativeArity(nm) ==
    IF nm \in {"clock"} THEN 0
    ELSE IF nm \in {"append", "min", "max", "input"} THEN -1
    ELSE IF nm \in {"remove", "key_remove", "pow"} THEN 2
    ELSE 1

Arity(f) == IF f.k = "fn" THEN Len(f.decl.params) ELSE NativeArity(f.name)

IsCallable(v) == v.k \in {"fn", "native"}

(* the parent of the environment Function.Call creates for a call of f *)
CallParent(f) == 1

RECURSIVE DefineParams(_, _, _, _, _)
DefineParams(E, e, ps, as, i) ==
    IF i > Len(ps) THEN E
    ELSE DefineParams(Define(E, e, ps[i], as[i]), e, ps, as, i + 1)

(* Function.Call up to the first statement of the body; s is the caller's stack *)
FunctionCallEnter(f, as, s) ==
    /\ Len(envs) < MaxEnvs
    /\ LET functionEnv == Len(envs) + 1
           E0 == Append(envs, NewEnvironmentWithParent(CallParent(f)))
           E1 == Define(E0, functionEnv, f.decl.name, f)
           E2 == DefineParams(E1, functionEnv, f.decl.params, as, 1)
       IN /\ envs' = E2
          /\ calls' = calls + 1
          /\ IF f.decl.body = <<>>
             THEN ctrl' = Nil /\ stack' = s
             ELSE /\ ctrl' = Ev(f.decl.body[1], functionEnv)
                  /\ stack' = Append(s, Frame(f.decl, functionEnv, "fbody", 1, <<>>))
          /\ UNCHANGED <<frontVars, prog, pcTop, returned, results, heap, out,
                         hadRuntimeError, lastError>>

(* what the body loop of Function.Call does with the signal of a statement *)
CallAfterStatement(sig) ==
    IF sig.type = ControlFlowReturn THEN "return"
    ELSE IF sig.type # ControlFlowNone THEN "drop"
    ELSE "next"

(* the body loop of Function.Call *)
FunctionCall ==
    /\ ctrl.mode = "ret"
    /\ stack # <<>>
    /\ Top.stage = "fbody"
    /\ IF CallAfterStatement(ctrl.sig) = "return" THEN Pure(Ret(ctrl.sig.value, NoSignal), Pop)
       ELSE IF CallAfterStatement(ctrl.sig) = "drop" THEN Pure(Nil, Pop)
       ELSE IF Top.i < Len(Top.node.body)
            THEN Pure(Ev(Top.node.body[Top.i + 1], Top.env), SetTop([Top EXCEPT !.i = @ + 1]))
       ELSE Pure(Nil, Pop)

(* NativeLenFn.Call *)
NativeLen(as) ==
    IF Len(as) # 1 THEN [val |-> NilV, err |-> "len function expects exactly 1 argument"]
    ELSE IF as[1].k # "array" THEN [val |-> NilV, err |-> "len function only works on arrays"]
    ELSE [val |-> [k |-> "goint", n |-> as[1].len], err |-> ""]

(* the capacity append gives a new backing array, for slices of up to 16 *)
(* elements: twice the old one, or what is needed when that is more       *)
GrowCap(cap, need) == IF need > 2 * cap THEN need ELSE 2 * cap

(* NativeAppendFn.Call: append(array, arguments[1:]...) writes behind the *)
(* slice when its capacity allows and moves to a new backing array else   *)
NativeAppend(as) ==
    IF Len(as) < 2
    THEN [val |-> NilV, heap |-> heap,
          err |-> "append function expects at least 2 arguments (array and element(s))"]
    ELSE IF as[1].k # "array"
    THEN [val |-> NilV, heap |-> heap, err |-> "append function only works on arrays"]
    ELSE LET array == as[1]
             need == array.len + Len(as) - 1
             cap == Len(heap[array.ptr])
         IN IF need <= cap
            THEN [val |-> ArrV(array.ptr, need),
                  heap |-> [heap EXCEPT ![array.ptr] =
                              [i \in 1..cap |-> IF i > array.len /\ i <= need
                                                THEN as[i - array.len + 1] ELSE @[i]]],
                  err |-> ""]
            ELSE [val |-> ArrV(Len(heap) + 1, need),
                  heap |-> Append(heap,
                                  [i \in 1..GrowCap(cap, need) |->
                                      IF i <= array.len THEN heap[array.ptr][i]
                                      ELSE IF i <= need THEN as[i - array.len + 1]
                                      ELSE NilV]),
                  err |-> ""]

(* NativeRemoveFn.Call: append(array[:index], array[index+1:]...) moves the *)
(* elements behind the index one place down in the backing array of the    *)
(* argument and returns the slice that is one shorter                      *)
NativeRemove(as) ==
    IF Len(as) # 2
    THEN [val |-> NilV, heap |-> heap,
          err |-> "remove function expects exactly 2 arguments (array and index)"]
    ELSE IF as[1].k # "array"
    THEN [val |-> NilV, heap |-> heap, err |-> "remove function only works on arrays"]
    ELSE IF ~toInt64(as[2]).ok
    THEN [val |-> NilV, heap |-> heap, err |-> "array index must be an integer"]
    ELSE IF toInt64(as[2]).n < 0 \/ toInt64(as[2]).n >= as[1].len
    THEN [val |-> NilV, heap |-> heap, err |-> "array index out of bounds"]
    ELSE [val |-> ArrV(as[1].ptr, as[1].len - 1),
          heap |-> [heap EXCEPT ![as[1].ptr] =
                      [i \in 1..Len(@) |-> IF i > toInt64(as[2]).n /\ i < as[1].len
                                           THEN @[i + 1] ELSE @[i]]],
          err |-> ""]

ModelledNatives == {"len", "append", "remove"}

(* function.Call(i, arguments) and what follows it in the Call case *)
Invoke(f, as, cf, s) ==
    IF f.k = "fn"
    THEN FunctionCallEnter(f, as, Append(s, [cf EXCEPT !.stage = "invoke"]))
    ELSE /\ f.name \in ModelledNatives
         /\ LET r == CASE f.name = "len" -> NativeLen(as) @@ [heap |-> heap]
                       [] f.name = "append" -> NativeAppend(as)
                       [] f.name = "remove" -> NativeRemove(as)
            IN /\ Len(r.heap) <= MaxHeap
               /\ ctrl' = IF r.err # "" THEN Nil ELSE Ret(r.val, NoSignal)
               /\ stack' = s
               /\ calls' = calls + 1
               /\ heap' = r.heap
               /\ hadRuntimeError' = (hadRuntimeError \/ r.err # "")
               /\ lastError' = IF r.err # "" THEN "Function call failed: " \o r.err
                               ELSE lastError
               /\ UNCHANGED <<frontVars, prog, pcTop, returned, results, envs, out>>

EvalCall ==
    IF Entering("Call")
    THEN Pure(Ev(ctrl.node.callee, ctrl.env),
              Push(Frame(ctrl.node, ctrl.env, "callee", 0, <<>>)))
    ELSE /\ Resuming("Call")
         /\ IF Top.stage = "callee"
            THEN IF ctrl.sig.type # ControlFlowNone THEN Pure(Ret(NilV, ctrl.sig), Pop)
                 ELSE IF ~IsCallable(ctrl.val) THEN Fail("Can only call functions.", Nil, Pop)
                 ELSE IF Arity(ctrl.val) # -1 /\ Len(Top.node.arguments) # Arity(ctrl.val)
                      THEN Fail("Expected " \o ToString(Arity(ctrl.val)) \o " arguments but "
                                \o ToString(Len(Top.node.arguments)) \o ".", Nil, Pop)
                 ELSE IF Top.node.arguments = <<>> THEN Invoke(ctrl.val, <<>>, Top, Pop)
                 ELSE Pure(Ev(Top.node.arguments[1], Top.env),
                           SetTop([Top EXCEPT !.stage = "arg", !.i = 1,
                                              !.vals = <<ctrl.val>>]))
            ELSE IF Top.stage = "arg"
            THEN IF ctrl.sig.type # ControlFlowNone THEN Pure(Ret(NilV, ctrl.sig), Pop)
                 ELSE IF Top.i < Len(Top.node.arguments)
                      THEN Pure(Ev(Top.node.arguments[Top.i + 1], Top.env),
                                SetTop([Top EXCEPT !.i = @ + 1,
                                                   !.vals = Append(@, ctrl.val)]))
                 ELSE Invoke(Top.vals[1], Tail(Append(Top.vals, ctrl.val)), Top, Pop)
            ELSE Pure(Ret(ctrl.val, NoSignal), Pop)

-----------------------------------------------------------------------------
(* Arrays.  An array value is a slice (ptr, len) of a backing array of the  *)
(* heap; the capacity is the length of the backing array.                  *)

(* capacity after appending n elements one at a time to an empty slice *)
AppendCap(n) ==
    IF n <= 2 THEN n ELSE IF n <= 4 THEN 4 ELSE 8

Backing(vs) == vs \o [i \in 1..(AppendCap(Len(vs)) - Len(vs)) |-> NilV]

(* the end of the ArrayLiteral case: the slice built by the appends *)
MakeArray(vs, s) ==
    /\ Len(heap) < MaxHeap
    /\ WithHeap(Append(heap, Backing(vs)), Ret(ArrV(Len(heap) + 1, Len(vs)), NoSignal), s)

EvalArrayLiteral ==
    IF Entering("ArrayLiteral")
    THEN IF ctrl.node.elements = <<>> THEN MakeArray(<<>>, stack)
         ELSE Pure(Ev(ctrl.node.elements[1], ctrl.env),
                   Push(Frame(ctrl.node, ctrl.env, "elem", 1, <<>>)))
    ELSE /\ Resuming("ArrayLiteral")
         /\ IF ctrl.sig.type # ControlFlowNone THEN Pure(Ret(NilV, ctrl.sig), Pop)
            ELSE IF Top.i < Len(Top.node.elements)
                 THEN Pure(Ev(Top.node.elements[Top.i + 1], Top.env),
                           SetTop([Top EXCEPT !.i = @ + 1, !.vals = Append(@, ctrl.val)]))
            ELSE MakeArray(Append(Top.vals, ctrl.val), Pop)

EvalArrayAccess ==
    IF Entering("ArrayAccess")
    THEN Pure(Ev(ctrl.node.array, ctrl.env),
              Push(Frame(ctrl.node, ctrl.env, "array", 0, <<>>)))
    ELSE /\ Resuming("ArrayAccess")
         /\ IF ctrl.sig.type # ControlFlowNone THEN Pure(Ret(NilV, ctrl.sig), Pop)
            ELSE IF Top.stage = "array"
                 THEN Pure(Ev(Top.node.index, Top.env),
                           SetTop([Top EXCEPT !.stage = "index", !.vals = <<ctrl.val>>]))
            ELSE LET array == Top.vals[1]
                     index == toInt64(ctrl.val)
                 IN IF array.k # "array"
                    THEN Fail("Invalid array access. Not an array.", Nil, Pop)
                    ELSE IF ~index.ok THEN Fail("Array index must be an integer.", Nil, Pop)
                    ELSE IF index.n < 0 \/ index.n >= array.len
                         THEN Fail("Array index out of bounds.", Nil, Pop)
                    ELSE Pure(Ret(heap[array.ptr][index.n + 1], NoSignal), Pop)

(* variant: the element is written to a copy of the backing array *)
StoreElementInCopy(H, array, i, v) == Append(H, [H[array.ptr] EXCEPT ![i + 1] = v])

(* array[index] = newValue *)
StoreElement(H, array, i, v) == [H EXCEPT ![array.ptr][i + 1] = v]

EvalArrayAssignment ==
    IF Entering("ArrayAssignment")
    THEN Pure(Ev(ctrl.node.array, ctrl.env),
              Push(Frame(ctrl.node, ctrl.env, "array", 0, <<>>)))
    ELSE /\ Resuming("ArrayAssignment")
         /\ IF ctrl.sig.type # ControlFlowNone THEN Pure(Ret(NilV, ctrl.sig), Pop)
            ELSE IF Top.stage = "array"
                 THEN Pure(Ev(Top.node.index, Top.env),
                           SetTop([Top EXCEPT !.stage = "index", !.vals = <<ctrl.val>>]))
            ELSE IF Top.stage = "index"
                 THEN Pure(Ev(Top.node.value, Top.env),
                           SetTop([Top EXCEPT !.stage = "value", !.vals = Append(@, ctrl.val)]))
            ELSE LET array == Top.vals[1]
                     index == toInt64(Top.vals[2])
                 IN IF array.k # "array"
                    THEN Fail("Invalid array assignment. Not an array.", Nil, Pop)
                    ELSE IF ~index.ok THEN Fail("Array index must be an integer.", Nil, Pop)
                    ELSE IF index.n < 0 \/ index.n >= array.len
                         THEN Fail("Array index out of bounds.", Nil, Pop)
                    ELSE WithHeap(StoreElement(heap, array, index.n, ctrl.val),
                                  Ret(ctrl.val, NoSignal), Pop)

-----------------------------------------------------------------------------
(* Interpret *)

(* env := NewEnvironmentWithParent(i.globals) *)
InterpretBegin ==
    /\ phase = "interpret"
    /\ returned = "init"
    /\ returned' = "running"
    /\ envs' = Append(envs, NewEnvironmentWithParent(1))
    /\ UNCHANGED <<frontVars, prog, pcTop, results, ctrl, stack, heap, out,
                   hadRuntimeError, lastError, calls>>

(* the range loop: the next statement, or return results *)
InterpretNext ==
    /\ returned = "running"
    /\ ctrl.mode = "idle"
    /\ IF pcTop <= Len(prog)
       THEN ctrl' = Ev(prog[pcTop], 2) /\ UNCHANGED returned
       ELSE ctrl' = ctrl /\ returned' = "results"
    /\ UNCHANGED <<frontVars, prog, pcTop, results, stack, envs, heap, out,
                   hadRuntimeError, lastError, calls>>

(* variant: a Return at the top level is not reported *)
UnexpectedSignalNoReturn(sig) ==
    IF sig.type = ControlFlowBreak THEN "Unexpected 'break' outside of loop."
    ELSE IF sig.type = ControlFlowContinue THEN "Unexpected 'continue' outside of loop."
    ELSE ""

(* the message Interpret reports for a signal that reaches it *)
UnexpectedSignal(sig) ==
    IF sig.type = ControlFlowBreak THEN "Unexpected 'break' outside of loop."
    ELSE IF sig.type = ControlFlowContinue THEN "Unexpected 'continue' outside of loop."
    ELSE IF sig.type = ControlFlowReturn THEN "Unexpected 'return' outside of function."
    ELSE ""

(* the body of the range loop after eval returned *)
InterpretResult ==
    /\ returned = "running"
    /\ ctrl.mode = "ret"
    /\ stack = <<>>
    /\ IF UnexpectedSignal(ctrl.sig) # ""
       THEN /\ hadRuntimeError' = TRUE
            /\ lastError' = UnexpectedSignal(ctrl.sig)
            /\ returned' = "nil"
            /\ ctrl' = Idle
            /\ UNCHANGED <<pcTop, results>>
       ELSE IF hadRuntimeError
       THEN /\ returned' = "nil"
            /\ ctrl' = Idle
            /\ UNCHANGED <<pcTop, results, hadRuntimeError, lastError>>
       ELSE /\ results' = Append(results, ctrl.val)
            /\ pcTop' = pcTop + 1
            /\ ctrl' = Idle
            /\ UNCHANGED <<returned, hadRuntimeError, lastError>>
    /\ UNCHANGED <<frontVars, prog, stack, envs, heap, out, calls>>

-----------------------------------------------------------------------------
(* Programs: the statement lists Interpret is run on *)

Stmt(e) == ExpressionStatement(e)
Set(nm, e) == Stmt(AssignmentStmt(nm, e))
Incr(nm) == AssignmentStmt(nm, Binary(Identifier(nm), "PLUS", Num(1)))
Less(nm, n) == Binary(Identifier(nm), "LESS", Num(n))
Eq(nm, n) == Binary(Identifier(nm), "EQUAL_EQUAL", Num(n))
True == Literal(BoolV(TRUE))
SignalStmt(sg) ==
    IF sg = ControlFlowBreak THEN BreakStmt
    ELSE IF sg = ControlFlowContinue THEN ContinueStmt
    ELSE Return(Num(5))

(* README "Closures & Functions" / scenario 3 of the specification *)
ClosureProg ==
    << FunctionStmt("counter", <<>>,
         << VarStmt("n", Num(0)),
            FunctionStmt("inc", <<>>, << Stmt(Incr("n")), Return(Identifier("n")) >>),
            Return(Identifier("inc")) >>),
       VarStmt("c", Call(Identifier("counter"), <<>>)),
       PrintStatement(Call(Identifier("c"), <<>>)),
       PrintStatement(Call(Identifier("c"), <<>>)),
       PrintStatement(Call(Identifier("c"), <<>>)) >>

(* a loop of kind lk over nm = 0 .. n-1 with the given body statements *)
Loop(lk, nm, n, body) ==
    IF lk = "While"
    THEN BlockStmt(<< VarStmt(nm, Num(0)),
                      While(Less(nm, n), BlockStmt(body)) >>)
    ELSE ForStmt(VarStmt(nm, Num(0)), Less(nm, n), Incr(nm), BlockStmt(body))

(* the step of the loop variable a While body has to make itself *)
Advance(lk, nm) == IF lk = "While" THEN << Stmt(Incr(nm)) >> ELSE << >>

(* the signal sg wrapped in wrap levels of If/Block, raised when nm = at *)
Guarded(nm, at, sg, wrap) ==
    IF wrap = 1 THEN IfStmt(Eq(nm, at), SignalStmt(sg), NoNode)
    ELSE IfStmt(Eq(nm, at), BlockStmt(<< BlockStmt(<< SignalStmt(sg) >>) >>), NoNode)

(* an inner loop over j raising sg, nested in an outer loop over i *)
NestedLoopProg(ok, ik, sg, wrap) ==
    << Loop(ok, "i", 2,
          Advance(ok, "i") \o
          << Loop(ik, "j", 3,
                Advance(ik, "j") \o
                << Guarded("j", 1, sg, wrap), PrintStatement(Identifier("j")) >>),
             PrintStatement(Num(10)) >>),
       PrintStatement(Num(99)) >>

LoopKinds == {"While", "ForStmt"}
LoopSignals == {ControlFlowBreak, ControlFlowContinue}

NestedLoopProgs ==
    { NestedLoopProg(ok, ik, sg, wrap) :
        ok \in LoopKinds, ik \in LoopKinds, sg \in LoopSignals, wrap \in 1..2 }

(* scenario 5 of the specification, with 4 in place of 5 iterations *)
ControlFlowDemo ==
    << ForStmt(VarStmt("i", Num(0)), Less("i", 4), Incr("i"),
         BlockStmt(<< IfStmt(Eq("i", 1), BlockStmt(<< ContinueStmt >>), NoNode),
                      IfStmt(Eq("i", 3), BlockStmt(<< BreakStmt >>), NoNode),
                      PrintStatement(Identifier("i")) >>)) >>

(* a Return in the body of a loop of kind lk inside a user function *)
ReturnInLoopProg(lk, n) ==
    << FunctionStmt("f", <<>>,
         << IF lk = "While"
            THEN BlockStmt(<< VarStmt("k", Num(0)),
                              While(IF n = 0 THEN True ELSE Less("k", n),
                                    BlockStmt(<< Stmt(Incr("k")), Return(Num(7)) >>)) >>)
            ELSE ForStmt(VarStmt("k", Num(0)), IF n = 0 THEN True ELSE Less("k", n),
                         Incr("k"), BlockStmt(<< Return(Num(7)) >>)),
            Return(Num(0)) >>),
       PrintStatement(Call(Identifier("f"), <<>>)) >>

ReturnInLoopProgs == { ReturnInLoopProg(lk, n) : lk \in LoopKinds, n \in {0, 2} }

(* a runtime error (the undefined name u) followed by statements with effects *)
Undefined == Identifier("u")

ErrorThenEffectProgs ==
    { (* If condition: the else branch writes an array element *)
      << VarStmt("a", ArrayLiteral(<< Num(1) >>)),
         IfStmt(Undefined, BlockStmt(<<>>),
                Stmt(ArrayAssignment(Identifier("a"), Num(0), Num(2)))) >>,
      (* function body: the statements after the failing one still run *)
      << FunctionStmt("f", <<>>, << Stmt(Undefined), VarStmt("y", NoNode) >>),
         Stmt(Call(Identifier("f"), <<>>)) >>,
      (* call argument: the callee is still called *)
      << Stmt(Call(Identifier("len"), << Undefined >>)) >>,
      (* block: the statement after the failing one does not run *)
      << BlockStmt(<< Stmt(Undefined), PrintStatement(Num(1)) >>),
         PrintStatement(Num(2)) >> }

(* a runtime error in the condition or the body of a loop *)
ErrorLoopProg(lk, where) ==
    LET cond == IF where = "cond" THEN Less("u", 1) ELSE True
        body == IF where = "cond" THEN BlockStmt(<< PrintStatement(Num(1)) >>)
                ELSE IF where = "block" THEN BlockStmt(<< Stmt(Undefined) >>)
                ELSE Stmt(Undefined)
    IN << IF lk = "While" THEN While(cond, body) ELSE ForStmt(NoNode, cond, NoNode, body),
          PrintStatement(Num(2)) >>

ErrorLoopProgs ==
    { ErrorLoopProg(lk, where) : lk \in LoopKinds, where \in {"cond", "body", "block"} }

(* a Break/Continue in a function body outside every loop, called from a loop *)
StrayProg(sg) ==
    << FunctionStmt("f", <<>>, << SignalStmt(sg), PrintStatement(Num(8)) >>),
       Loop("While", "i", 2,
            << Stmt(Incr("i")), Stmt(Call(Identifier("f"), <<>>)),
               PrintStatement(Identifier("i")) >>) >>

StrayProgs == { StrayProg(sg) : sg \in LoopSignals }

(* a signal that reaches the top level of Interpret *)
TopSignalProg(sg, wrap) ==
    << PrintStatement(Num(1)),
       IF wrap = 0 THEN SignalStmt(sg)
       ELSE IF wrap = 1 THEN IfStmt(True, SignalStmt(sg), NoNode)
       ELSE BlockStmt(<< BlockStmt(<< SignalStmt(sg) >>) >>),
       PrintStatement(Num(2)) >>

AllSignals == {ControlFlowBreak, ControlFlowContinue, ControlFlowReturn}

TopSignalProgs == { TopSignalProg(sg, wrap) : sg \in AllSignals, wrap \in 0..2 }

(* one array bound to two names, written through one and read through the other *)
AliasProg(how, i, fwd) ==
    LET w == IF fwd THEN "b" ELSE "a"
        r == IF fwd THEN "a" ELSE "b"
        a12 == VarStmt("a", ArrayLiteral(<< Num(1), Num(2) >>))
        use == << Stmt(ArrayAssignment(Identifier(w), Num(i), Num(9))),
                  PrintStatement(ArrayAccess(Identifier(r), Num(i))) >>
    IN IF how = "decl" THEN << a12, VarStmt("b", Identifier("a")) >> \o use
       ELSE IF how = "assign"
       THEN << a12, VarStmt("b", NoNode), Set("b", Identifier("a")) >> \o use
       ELSE IF fwd
       THEN << a12,
               FunctionStmt("f", << "x" >>,
                 << Stmt(ArrayAssignment(Identifier("x"), Num(i), Num(9))) >>),
               Stmt(Call(Identifier("f"), << Identifier("a") >>)),
               PrintStatement(ArrayAccess(Identifier("a"), Num(i))) >>
       ELSE << a12,
               FunctionStmt("f", << "x", "y" >>,
                 << Stmt(ArrayAssignment(Identifier("x"), Num(i), Num(9))),
                    Return(ArrayAccess(Identifier("y"), Num(i))) >>),
               PrintStatement(Call(Identifier("f"), << Identifier("a"), Identifier("a") >>)) >>

AliasHows == {"decl", "assign", "arg"}

AliasProgs == { AliasProg(how, i, fwd) : how \in AliasHows, i \in 0..1, fwd \in BOOLEAN }

(* Var statements on a name that is or is not defined already *)
RedeclareSame == << VarStmt("x", Num(1)), VarStmt("x", Num(2)), PrintStatement(Identifier("x")) >>
RedeclareNoInit == << VarStmt("x", Num(1)), VarStmt("x", NoNode) >>
RedeclareParam ==
    << FunctionStmt("f", << "p" >>, << VarStmt("p", Num(3)), PrintStatement(Identifier("p")) >>),
       Stmt(Call(Identifier("f"), << Num(1) >>)) >>
Shadow ==
    << VarStmt("x", Num(1)),
       BlockStmt(<< VarStmt("x", Num(2)), PrintStatement(Identifier("x")),
                    BlockStmt(<< VarStmt("x", NoNode), PrintStatement(Identifier("x")) >>) >>),
       PrintStatement(Identifier("x")) >>

RedeclareProgs == {RedeclareSame, RedeclareNoInit, RedeclareParam, Shadow}

(* x declared at the nesting levels of lv, assigned at level 2, printed at every level *)
Declared(lv, l) == IF l \in lv THEN << VarStmt("x", Num(l)) >> ELSE << >>

AssignProg(lv) ==
    Declared(lv, 0) \o
    << BlockStmt(Declared(lv, 1) \o
         << BlockStmt(Declared(lv, 2) \o
              << Set("x", Num(7)), PrintStatement(Identifier("x")) >>),
            PrintStatement(Identifier("x")) >>),
       PrintStatement(Identifier("x")) >>

AssignProgs == { AssignProg(lv) : lv \in SUBSET (0..2) }

(* NAME = 1; print NAME; for a built-in NAME, as the parser hands it over *)
BuiltinAssignTokens(nm) ==
    <<Name(nm), Tok("EQUAL"), Number(1), Tok("SEMICOLON"), Tok("PRINT"), Name(nm),
      Tok("SEMICOLON")>>

BuiltinAssignProgs == {Parse(BuiltinAssignTokens(nm)) : nm \in NativeNames}

(* var v = VALUE; print v == v; print v != v; for a value of each kind *)
ValueKinds ==
    {"number", "integer", "boolean", "literal", "concatenation", "array", "function",
     "native"}

ValueTokens(kind) ==
    CASE kind = "number" -> <<Number(1)>>
      [] kind = "integer" -> <<Number(5), Tok("AND"), Number(3)>>
      [] kind = "boolean" -> <<Tok("TRUE")>>
      [] kind = "literal" -> <<String("s")>>
      [] kind = "concatenation" -> <<String("s"), Tok("PLUS"), String("t")>>
      [] kind = "array" -> <<Tok("LEFT_BRACKET"), Number(1), Tok("RIGHT_BRACKET")>>
      [] kind = "function" -> <<Name("f")>>
      [] kind = "native" -> <<Name("len")>>

SelfComparisonTokens(kind) ==
    (IF kind = "function"
     THEN <<Tok("FUN"), Name("f"), Tok("LEFT_PAREN"), Tok("RIGHT_PAREN"),
            Tok("LEFT_BRACE"), Tok("RIGHT_BRACE")>>
     ELSE <<>>)
    \o <<Tok("VAR"), Name("v"), Tok("EQUAL")>> \o ValueTokens(kind)
    \o <<Tok("SEMICOLON"),
          Tok("PRINT"), Name("v"), Tok("EQUAL_EQUAL"), Name("v"), Tok("SEMICOLON"),
          Tok("PRINT"), Name("v"), Tok("BANG_EQUAL"), Name("v"), Tok("SEMICOLON")>>

SelfComparisonProgs == {Parse(SelfComparisonTokens(kind)) : kind \in ValueKinds}

(* print (a op b) == n; print n != (a op b); with n the value of a op b *)
BitwiseTypes == {"AND", "OR", "XOR", "LEFT_SHIFT", "RIGHT_SHIFT"}

BitwiseOperands == {0, 1, 3, 5}

BitwiseValue(a, op, b) == handleBitwise(NumV(a), op, NumV(b)).val.n

MixedTagTokens(a, op, b) ==
    LET grouped == <<Tok("LEFT_PAREN"), Number(a), Tok(op), Number(b), Tok("RIGHT_PAREN")>>
        n == Number(BitwiseValue(a, op, b))
    IN <<Tok("PRINT")>> \o grouped \o <<Tok("EQUAL_EQUAL"), n, Tok("SEMICOLON")>>
       \o <<Tok("PRINT"), n, Tok("BANG_EQUAL")>> \o grouped \o <<Tok("SEMICOLON")>>

MixedTagProgs ==
    {Parse(MixedTagTokens(a, op, b)) :
        a \in BitwiseOperands, op \in BitwiseTypes, b \in BitwiseOperands}

(* print !!v; for a value of each kind and of each truth *)
TruthKinds ==
    {"nil", "false", "true", "zero", "number", "zero integer", "integer",
     "empty literal", "literal", "empty concatenation", "concatenation",
     "empty array", "array", "function", "native"}

TruthTokens(kind) ==
    CASE kind = "nil" -> <<Tok("NIL")>>
      [] kind = "false" -> <<Tok("FALSE")>>
      [] kind = "true" -> <<Tok("TRUE")>>
      [] kind = "zero" -> <<Number(0)>>
      [] kind = "number" -> <<Number(2)>>
      [] kind = "zero integer" ->
             <<Tok("LEFT_PAREN"), Number(5), Tok("AND"), Number(2), Tok("RIGHT_PAREN")>>
      [] kind = "integer" ->
             <<Tok("LEFT_PAREN"), Number(5), Tok("AND"), Number(3), Tok("RIGHT_PAREN")>>
      [] kind = "empty literal" -> <<StringOfRunes(<<>>)>>
      [] kind = "literal" -> <<String("s")>>
      [] kind = "empty concatenation" ->
             <<Tok("LEFT_PAREN"), StringOfRunes(<<>>), Tok("PLUS"), StringOfRunes(<<>>),
               Tok("RIGHT_PAREN")>>
      [] kind = "concatenation" ->
             <<Tok("LEFT_PAREN"), String("s"), Tok("PLUS"), StringOfRunes(<<>>),
               Tok("RIGHT_PAREN")>>
      [] kind = "empty array" -> <<Tok("LEFT_BRACKET"), Tok("RIGHT_BRACKET")>>
      [] kind = "array" -> <<Tok("LEFT_BRACKET"), Number(0), Tok("RIGHT_BRACKET")>>
      [] kind = "function" -> <<Name("f")>>
      [] kind = "native" -> <<Name("len")>>

TruthinessTokens(kind) ==
    (IF kind = "function"
     THEN <<Tok("FUN"), Name("f"), Tok("LEFT_PAREN"), Tok("RIGHT_PAREN"),
            Tok("LEFT_BRACE"), Tok("RIGHT_BRACE")>>
     ELSE <<>>)
    \o <<Tok("PRINT"), Tok("BANG"), Tok("BANG")>> \o TruthTokens(kind)
    \o <<Tok("SEMICOLON")>>

TruthinessParsed == [kind \in TruthKinds |-> Parse(TruthinessTokens(kind))]

TruthinessProgs == {TruthinessParsed[kind] : kind \in TruthKinds}

(* calls of values that are not callable, calls with a wrong and with a *)
(* right number of arguments, and calls of the built-in append, whose   *)
(* arity is -1; error is the report owed, out what is printed and arrays *)
(* the number of arrays made when no argument of a rejected call is      *)
(* evaluated                                                             *)
DeclareF == Words(<<"fun", "f", "(", "a", ")", "{", "print", "a", ";", "}">>)

DeclareG == Words(<<"fun", "g", "(", ")", "{", "print", "1", ";", "}">>)

NotCallable ==
    {<<Number(1)>>, <<Tok("NIL")>>, <<Tok("TRUE")>>, <<String("s")>>,
     <<Tok("LEFT_BRACKET"), Number(1), Tok("RIGHT_BRACKET")>>}

CallCases ==
    {[toks |-> Words(<<"var", "x", "=">>) \o v \o Words(<<";", "x", "(", "2", ")", ";">>),
      error |-> "Can only call functions.", out |-> <<>>,
      arrays |-> IF v[1].type = "LEFT_BRACKET" THEN 1 ELSE 0] : v \in NotCallable}
    \cup
    {[toks |-> DeclareF \o Words(<<"f", "(", "1", ",", "2", ")", ";">>),
      error |-> "Expected 1 arguments but 2.", out |-> <<>>, arrays |-> 0],
     [toks |-> DeclareF \o Words(<<"f", "(", ")", ";">>),
      error |-> "Expected 1 arguments but 0.", out |-> <<>>, arrays |-> 0],
     [toks |-> DeclareG \o Words(<<"g", "(", "1", ")", ";">>),
      error |-> "Expected 0 arguments but 1.", out |-> <<>>, arrays |-> 0],
     [toks |-> Words(<<"len", "(", ")", ";">>),
      error |-> "Expected 1 arguments but 0.", out |-> <<>>, arrays |-> 0],
     [toks |-> Words(<<"len", "(", "[", "1", "]", ",", "2", ")", ";">>),
      error |-> "Expected 1 arguments but 2.", out |-> <<>>, arrays |-> 0],
     [toks |-> Words(<<"remove", "(", "[", "1", "]", ")", ";">>),
      error |-> "Expected 2 arguments but 1.", out |-> <<>>, arrays |-> 0],
     [toks |-> DeclareF \o Words(<<"f", "(", "1", ")", ";">>),
      error |-> "", out |-> <<NumV(1)>>, arrays |-> 0],
     [toks |-> DeclareG \o Words(<<"g", "(", ")", ";">>),
      error |-> "", out |-> <<NumV(1)>>, arrays |-> 0],
     [toks |-> Words(<<"print", "len", "(", "append", "(", "[", "1", "]", ",", "2", ",",
                       "3", ")", ")", ";">>),
      error |-> "", out |-> <<[k |-> "goint", n |-> 3]>>, arrays |-> 2],
     [toks |-> Words(<<"print", "len", "(", "append", "(", "[", "1", "]", ",", "2", ")",
                       ")", ";">>),
      error |-> "", out |-> <<[k |-> "goint", n |-> 2]>>, arrays |-> 2],
     [toks |-> Words(<<"append", "(", ")", ";">>),
      error |-> "Function call failed: append function expects at least 2 arguments "
                \o "(array and element(s))", out |-> <<>>, arrays |-> 0],
     [toks |-> Words(<<"append", "(", "1", ")", ";">>),
      error |-> "Function call failed: append function expects at least 2 arguments "
                \o "(array and element(s))", out |-> <<>>, arrays |-> 0]}

(* the cases with the statements Parse makes of them *)
CallParsed == {[prog |-> Parse(c.toks), error |-> c.error, out |-> c.out,
                arrays |-> c.arrays] : c \in CallCases}

CallProgs == {c.prog : c \in CallParsed}

(* print L op R; with an operand outside the domain of the operator; *)
(* error is the report owed                                           *)
NonNumberKinds ==
    {"nil", "boolean", "literal", "literal of digits", "concatenation",
     "concatenation of digits", "array"}

NonNumber(kind) ==
    CASE kind = "nil" -> <<Tok("NIL")>>
      [] kind = "boolean" -> <<Tok("TRUE")>>
      [] kind = "literal" -> <<String("s")>>
      [] kind = "literal of digits" -> <<String("1")>>
      [] kind = "concatenation" ->
             <<Tok("LEFT_PAREN"), String("s"), Tok("PLUS"), String("t"), Tok("RIGHT_PAREN")>>
      [] kind = "concatenation of digits" ->
             <<Tok("LEFT_PAREN"), String("1"), Tok("PLUS"), String("2"), Tok("RIGHT_PAREN")>>
      [] kind = "array" -> <<Tok("LEFT_BRACKET"), Number(1), Tok("RIGHT_BRACKET")>>

NumberTypes ==
    {"MINUS", "STAR", "SLASH", "MODULO", "POWER", "GREATER", "GREATER_EQUAL", "LESS",
     "LESS_EQUAL"}

PrintBinary(l, op, r) == <<Tok("PRINT")>> \o l \o <<Tok(op)>> \o r \o <<Tok("SEMICOLON")>>

Zeros ==
    {<<Number(0)>>,
     <<Tok("LEFT_PAREN"), Number(5), Tok("AND"), Number(2), Tok("RIGHT_PAREN")>>,
     <<Tok("LEFT_PAREN"), Number(2), Tok("MINUS"), Number(2), Tok("RIGHT_PAREN")>>}

DomainCases ==
    {[toks |-> PrintBinary(<<Number(l)>>, op, z), kind |-> "zero",
      error |-> "Division by zero."] :
        l \in {0, 6}, op \in {"SLASH", "MODULO"}, z \in Zeros}
    \cup
    {[toks |-> PrintBinary(NonNumber(kind), op, <<Number(1)>>), kind |-> kind,
      error |-> "Left operand must be a number."] :
        kind \in NonNumberKinds, op \in NumberTypes}
    \cup
    {[toks |-> PrintBinary(<<Number(1)>>, op, NonNumber(kind)), kind |-> kind,
      error |-> "Right operand must be a number."] :
        kind \in NonNumberKinds, op \in NumberTypes}
    \cup
    {[toks |-> PrintBinary(NonNumber(kind), "PLUS", r), kind |-> kind,
      error |-> "Operands must be numbers or strings."] :
        kind \in {"nil", "boolean"},
        r \in {<<Number(1)>>, <<String("s")>>, <<Tok("NIL")>>, <<Tok("FALSE")>>}}
    \cup
    {[toks |-> PrintBinary(<<Number(1)>>, "PLUS", NonNumber(kind)), kind |-> kind,
      error |-> "Operands must be numbers or strings."] :
        kind \in {"nil", "boolean"}}
    \cup
    {[toks |-> PrintBinary(l, "PLUS", NonNumber(kind)), kind |-> kind,
      error |-> "Right operand must be a string or number."] :
        kind \in {"nil", "boolean"},
        l \in {NonNumber("literal"), NonNumber("concatenation")}}

(* the cases with the statements Parse makes of them *)
DomainParsed == {[prog |-> Parse(c.toks), kind |-> c.kind, error |-> c.error] :
                    c \in DomainCases}

DomainProgs == {c.prog : c \in DomainParsed}

(* fun b() { print 9; return R; } print L op b(); for the two logical *)
(* operators: the 9 in the output tells that the right operand was     *)
(* evaluated, and how often                                            *)
LeftKinds ==
    {"nil", "false", "zero", "empty concatenation", "true", "number", "literal",
     "concatenation", "array"}

LeftValue(kind) ==
    CASE kind = "nil" -> NilV
      [] kind = "false" -> BoolV(FALSE)
      [] kind = "zero" -> NumV(0)
      [] kind = "empty concatenation" -> StringV(<<>>)
      [] kind = "true" -> BoolV(TRUE)
      [] kind = "number" -> NumV(2)
      [] kind = "literal" -> RunesV(<<"s">>)
      [] kind = "concatenation" -> StringV(<<"s">>)
      [] kind = "array" -> ArrV(1, 1)

RightValues == {NilV, BoolV(FALSE), NumV(0), NumV(3), RunesV(<<"r">>)}

RightTokens(v) ==
    CASE v.k = "nil" -> <<Tok("NIL")>>
      [] v.k = "bool" -> <<Tok("FALSE")>>
      [] v.k = "float" -> <<Number(v.n)>>
      [] v.k = "runes" -> <<StringOfRunes(v.rs)>>

LogicalTokens(kind, op, r) ==
    Words(<<"fun", "b", "(", ")", "{", "print", "9", ";", "return">>) \o RightTokens(r)
    \o Words(<<";", "}", "print">>) \o TruthTokens(kind) \o <<Tok(op)>>
    \o Words(<<"b", "(", ")", ";">>)

LogicalCases ==
    {[prog |-> Parse(LogicalTokens(kind, op, r)), left |-> kind, op |-> op, right |-> r] :
        kind \in LeftKinds, op \in {"LOGICAL_OR", "LOGICAL_AND"}, r \in RightValues}

LogicalProgs == {c.prog : c \in LogicalCases}

(* var a = [1, 2]; followed by print a[I]; or by a[I] = 9; for an index I *)
(* that is an integer inside or outside [0, 2) or is no integer at all    *)
IndexKinds ==
    {"0", "1", "2", "3", "-1", "nil", "boolean", "literal", "literal of digits",
     "concatenation", "concatenation of digits", "array"}

IntegerIndex ==
    ("0" :> 0) @@ ("1" :> 1) @@ ("2" :> 2) @@ ("3" :> 3) @@ ("-1" :> -1)

IndexTokens(kind) ==
    CASE kind \in {"0", "1", "2", "3"} -> <<Number(IntegerIndex[kind])>>
      [] kind = "-1" -> <<Tok("MINUS"), Number(1)>>
      [] kind = "nil" -> <<Tok("NIL")>>
      [] kind = "boolean" -> <<Tok("TRUE")>>
      [] kind = "literal" -> <<String("s")>>
      [] kind = "literal of digits" -> <<String("0")>>
      [] kind = "concatenation" ->
             <<Tok("LEFT_PAREN"), String("s"), Tok("PLUS"), StringOfRunes(<<>>),
               Tok("RIGHT_PAREN")>>
      [] kind = "concatenation of digits" ->
             <<Tok("LEFT_PAREN"), String("0"), Tok("PLUS"), StringOfRunes(<<>>),
               Tok("RIGHT_PAREN")>>
      [] kind = "array" -> <<Tok("LEFT_BRACKET"), Number(0), Tok("RIGHT_BRACKET")>>

IndexTokensOf(kind, write) ==
    Words(<<"var", "a", "=", "[", "1", ",", "2", "]", ";">>)
    \o (IF write THEN Words(<<"a", "[">>) \o IndexTokens(kind) \o Words(<<"]", "=", "9", ";">>)
        ELSE Words(<<"print", "a", "[">>) \o IndexTokens(kind) \o Words(<<"]", ";">>))

IndexCases ==
    {[prog |-> Parse(IndexTokensOf(kind, write)), index |-> kind, write |-> write] :
        kind \in IndexKinds, write \in BOOLEAN}

IndexProgs == {c.prog : c \in IndexCases}

(* print L op R; for == and != on two values of every pair of kinds, and *)
(* for the shifts by a count that is zero, positive or negative          *)
OperandKinds == {"nil", "boolean", "number", "literal", "concatenation", "array"}

OperandTokens(kind) ==
    IF kind = "number" THEN <<Number(1)>> ELSE NonNumber(kind)

ShiftCounts == {<<Number(0)>>, <<Number(1)>>, <<Tok("MINUS"), Number(1)>>,
                <<Tok("LEFT_PAREN"), Number(0), Tok("MINUS"), Number(2), Tok("RIGHT_PAREN")>>}

OperatorInputs ==
    {[toks |-> PrintBinary(OperandTokens(l), op, OperandTokens(r)),
      op |-> op, left |-> l, right |-> r] :
        l \in OperandKinds, op \in {"EQUAL_EQUAL", "BANG_EQUAL"}, r \in OperandKinds}
    \cup
    {[toks |-> PrintBinary(<<Number(4)>>, op, n), op |-> op, left |-> "number",
      right |-> IF n[1].type = "NUMBER" THEN "count" ELSE "negative count"] :
        op \in {"LEFT_SHIFT", "RIGHT_SHIFT"}, n \in ShiftCounts}

OperatorCases ==
    {[prog |-> Parse(c.toks), op |-> c.op, left |-> c.left, right |-> c.right] :
        c \in OperatorInputs}

OperatorProgs == {c.prog : c \in OperatorCases}

(* var a = [1, 2, 3]; var b = remove(a, I); print a[I]; for an index I   *)
(* inside or outside [0, 3) or no integer at all                          *)
RemoveKinds == {"0", "1", "2", "3", "-1", "nil", "boolean", "literal", "array"}

RemoveTokens(kind) ==
    Words(<<"var", "a", "=", "[", "1", ",", "2", ",", "3", "]", ";",
            "var", "b", "=", "remove", "(", "a", ",">>) \o IndexTokens(kind)
    \o Words(<<")", ";", "print", "a", "[">>) \o IndexTokens(kind) \o Words(<<"]", ";">>)

RemoveParsed == [kind \in RemoveKinds |-> Parse(RemoveTokens(kind))]

RemoveProgs == {RemoveParsed[kind] : kind \in RemoveKinds}

(* For statements that declare i, followed by a use of i or by a second *)
(* For statement that declares i, at the top level and inside a block   *)
ForHead(n) ==
    Words(<<"for", "(", "var", "i", "=", "0", ";", "i", "<">>) \o <<Number(n)>>
    \o Words(<<";", "i", "=", "i", "+", "1", ")">>)

InBlock(wrap, ts) ==
    IF wrap THEN <<Tok("LEFT_BRACE")>> \o ts \o <<Tok("RIGHT_BRACE")>> ELSE ts

ForThenUseTokens(n, wrap) ==
    InBlock(wrap, ForHead(n) \o Words(<<"{", "}", "print", "i", ";">>))

ForThenForTokens(n, wrap) ==
    InBlock(wrap, ForHead(n) \o Words(<<"{", "}">>)
                  \o ForHead(1) \o Words(<<"{", "print", "i", ";", "}">>))

ForThenUse(n, wrap) == Parse(ForThenUseTokens(n, wrap))

ForThenFor(n, wrap) == Parse(ForThenForTokens(n, wrap))

ForThenUseProgs == {ForThenUse(n, wrap) : n \in 0..2, wrap \in BOOLEAN}

ForThenForProgs == {ForThenFor(n, wrap) : n \in 0..2, wrap \in BOOLEAN}

(* blocks that define y, shadow x and assign to x, and end normally, by a *)
(* signal or by a runtime error; print x and print y follow.  The block  *)
(* that returns y is in the body of a function, whose call is printed    *)
BlockEnds == {"normally", "break", "continue", "return", "error"}

BlockBody(end) ==
    Words(<<"{", "var", "y", "=", "2", ";", "x", "=", "3", ";",
            "{", "var", "x", "=", "4", ";", "x", "=", "5", ";", "y", "=", "6", ";", "}",
            "fun", "h", "(", ")", "{", "}">>)
    \o (CASE end = "normally" -> <<>>
           [] end = "break" -> Words(<<"break", ";">>)
           [] end = "continue" -> Words(<<"continue", ";">>)
           [] end = "return" -> Words(<<"return", "y", ";">>)
           [] end = "error" -> Words(<<"print", "u", ";">>))
    \o Words(<<"x", "=", "7", ";", "}">>)

BlockTokens(end) ==
    CASE end \in {"normally", "error"} ->
             Words(<<"var", "x", "=", "1", ";">>) \o BlockBody(end)
             \o Words(<<"print", "x", ";", "print", "y", ";">>)
      [] end = "break" ->
             Words(<<"var", "x", "=", "1", ";", "while", "(", "true", ")">>)
             \o BlockBody(end) \o Words(<<"print", "x", ";", "print", "y", ";">>)
      [] end = "continue" ->
             Words(<<"var", "x", "=", "1", ";",
                     "for", "(", "var", "k", "=", "0", ";", "k", "<", "1", ";",
                     "k", "=", "k", "+", "1", ")">>)
             \o BlockBody(end) \o Words(<<"print", "x", ";", "print", "y", ";">>)
      [] end = "return" ->
             Words(<<"fun", "g", "(", ")", "{", "var", "x", "=", "1", ";">>)
             \o BlockBody(end) \o Words(<<"print", "x", ";", "}">>)
             \o Words(<<"print", "g", "(", ")", ";", "print", "y", ";">>)

BlockParsed == [end \in BlockEnds |-> Parse(BlockTokens(end))]

BlockProgs == {BlockParsed[end] : end \in BlockEnds}

(* the programs given as tokens, which Parse turns into statements *)
ProgramTokens ==
    {BuiltinAssignTokens(nm) : nm \in NativeNames}
    \cup {SelfComparisonTokens(kind) : kind \in ValueKinds}
    \cup {MixedTagTokens(a, op, b) :
             a \in BitwiseOperands, op \in BitwiseTypes, b \in BitwiseOperands}
    \cup {TruthinessTokens(kind) : kind \in TruthKinds}
    \cup {c.toks : c \in CallCases}
    \cup {c.toks : c \in DomainCases}
    \cup {ForThenUseTokens(n, wrap) : n \in 0..2, wrap \in BOOLEAN}
    \cup {ForThenForTokens(n, wrap) : n \in 0..2, wrap \in BOOLEAN}
    \cup {BlockTokens(end) : end \in BlockEnds}
    \cup {LogicalTokens(kind, op, r) :
             kind \in LeftKinds, op \in {"LOGICAL_OR", "LOGICAL_AND"}, r \in RightValues}
    \cup {IndexTokensOf(kind, write) : kind \in IndexKinds, write \in BOOLEAN}
    \cup {c.toks : c \in OperatorInputs}
    \cup {RemoveTokens(kind) : kind \in RemoveKinds}

(* the programs given as statements and the parsed ones: the latter are the *)
(* members of BuiltinAssignProgs, SelfComparisonProgs, MixedTagProgs,       *)
(* TruthinessProgs, CallProgs, DomainProgs, ForThenUseProgs,                *)
(* ForThenForProgs, BlockProgs, LogicalProgs, IndexProgs, OperatorProgs and *)
(* RemoveProgs                                                              *)
Programs ==
    {ClosureProg, ControlFlowDemo} \cup NestedLoopProgs \cup ReturnInLoopProgs
    \cup ErrorThenEffectProgs \cup ErrorLoopProgs \cup StrayProgs \cup TopSignalProgs
    \cup AliasProgs \cup RedeclareProgs \cup AssignProgs
    \cup {Parse(ts) : ts \in ProgramTokens}

-----------------------------------------------------------------------------
(* the variables of the front end while the evaluator runs *)
FrontIdle ==
    /\ source = <<>>
    /\ start = 0
    /\ current = 0
    /\ line = 1
    /\ tokens = <<>>
    /\ hadError = FALSE
    /\ reports = <<>>
    /\ phase = "interpret"
    /\ pcurrent = 0
    /\ statements = <<>>
    /\ parseError = ""
    /\ interpreted = <<>>

Init ==
    /\ prog \in Programs
    /\ pcTop = 1
    /\ returned = "init"
    /\ results = <<>>
    /\ ctrl = Idle
    /\ stack = <<>>
    /\ envs = <<Globals>>
    /\ heap = <<>>
    /\ out = <<>>
    /\ hadRuntimeError = FALSE
    /\ lastError = ""
    /\ calls = 0
    /\ FrontIdle

Next ==
    \/ InterpretBegin
    \/ InterpretNext
    \/ InterpretResult
    \/ EvalLiteral
    \/ EvalGrouping
    \/ EvalIdentifier
    \/ EvalBinary
    \/ EvalUnary
    \/ EvalLogical
    \/ EvalAssignmentStmt
    \/ EvalVarStmt
    \/ EvalPrintStatement
    \/ EvalExpressionStatement
    \/ EvalBlockStmt
    \/ EvalIfStmt
    \/ EvalBreakStmt
    \/ EvalContinueStmt
    \/ EvalReturn
    \/ EvalWhile
    \/ EvalForStmt
    \/ EvalFunctionStmt
    \/ EvalCall
    \/ FunctionCall
    \/ EvalArrayLiteral
    \/ EvalArrayAccess
    \/ EvalArrayAssignment

Spec == Init /\ [][Next]_vars

Done == returned \in {"results", "nil"}

-----------------------------------------------------------------------------
(* The scanner on its own: ScanTokens on every source of the bounded sets *)

MaxSource == 3

BoundedSeq(S, n) == UNION {[1..m -> S] : m \in 0..n}

SourceRunes == {"(", "=", "/", "*", " ", "\n", "\"", "1", "x", "@"}

(* the keyword table of the language: the scanner's and the print keyword *)
KeywordTable ==
    (* দেখাও *)
    keywords @@ (<<"U+09A6", "U+09C7", "U+0996", "U+09BE", "U+0993">> :> "PRINT")

Lexemes ==
    DOMAIN KeywordTable
    \cup {<<"U+09E8", "U+09E9", ".", "U+09E9", "U+09E8">>, <<"1", ".">>,
          <<"1", ".", "5", "0">>, <<"U+09E6", "7">>,
          <<"<", "<">>, <<"<", "=">>, <<">", ">">>, <<">">>, <<"!", "=">>, <<"!">>,
          <<"|", "|">>, <<"|">>, <<"&", "&">>, <<"&">>, <<"+">>, <<";">>,
          <<"/", "/", "x", "\n">>, <<"/", "*", "\n", "*", "/">>, <<"\"", "\n", "\"">>,
          <<"\t">>}

Contexts == {<<>>, <<"x">>, <<" ">>, <<"1">>, <<"U+09BE">>, <<"(">>, <<"\n">>, <<"_">>,
             <<"\"">>, <<"@">>}

Sources ==
    BoundedSeq(SourceRunes, MaxSource)
    \cup {pre \o lexeme \o post : pre \in Contexts, lexeme \in Lexemes, post \in Contexts}

(* the variables of the evaluator while the front end runs *)
EvalIdle ==
    /\ prog = <<>>
    /\ pcTop = 1
    /\ returned = "init"
    /\ results = <<>>
    /\ ctrl = Idle
    /\ stack = <<>>
    /\ envs = <<Globals>>
    /\ heap = <<>>
    /\ out = <<>>
    /\ hadRuntimeError = FALSE
    /\ lastError = ""
    /\ calls = 0

(* NewScanner(source), before NewParser *)
LexInit ==
    /\ source \in Sources
    /\ start = 0
    /\ current = 0
    /\ line = 1
    /\ tokens = <<>>
    /\ hadError = FALSE
    /\ reports = <<>>
    /\ phase = "scan"
    /\ pcurrent = 0
    /\ statements = <<>>
    /\ parseError = ""
    /\ interpreted = <<>>
    /\ EvalIdle

LexNext ==
    \/ ScanSingle
    \/ ScanOperator
    \/ ScanSlash
    \/ ScanWhitespace
    \/ ScanNewline
    \/ ScanString
    \/ ScanNumber
    \/ ScanIdentifier
    \/ ScanUnexpected
    \/ ScanTokensReturn

(* ScanTokens is a loop that nothing interrupts: a step that can be taken *)
(* is taken                                                              *)
LexSpec == LexInit /\ [][LexNext]_vars /\ WF_vars(LexNext)

-----------------------------------------------------------------------------
(* The parser on its own: Parse, and what main.run does with its result,  *)
(* on token sequences as the scanner builds them.                         *)

(* the declarations of the name nm, by the place of the declarator *)
DeclForms ==
    {"var", "varInit", "second", "secondBare", "for", "forSecond", "fun", "inBlock",
     "inFun", "funInIf"}

Decl(form, nm) ==
    CASE form = "var" -> <<Tok("VAR"), Name(nm), Tok("SEMICOLON")>>
      [] form = "varInit" ->
            <<Tok("VAR"), Name(nm), Tok("EQUAL"), Number(1), Tok("SEMICOLON")>>
      [] form = "second" ->
            <<Tok("VAR"), Name("x"), Tok("EQUAL"), Number(1), Tok("COMMA"), Name(nm),
              Tok("EQUAL"), Number(2), Tok("SEMICOLON")>>
      [] form = "secondBare" ->
            <<Tok("VAR"), Name("x"), Tok("COMMA"), Name(nm), Tok("SEMICOLON")>>
      [] form = "for" ->
            <<Tok("FOR"), Tok("LEFT_PAREN"), Tok("VAR"), Name(nm), Tok("EQUAL"), Number(0),
              Tok("SEMICOLON"), Tok("SEMICOLON"), Tok("RIGHT_PAREN"), Tok("PRINT"),
              Number(1), Tok("SEMICOLON")>>
      [] form = "forSecond" ->
            <<Tok("FOR"), Tok("LEFT_PAREN"), Tok("VAR"), Name("x"), Tok("EQUAL"),
              Number(0), Tok("COMMA"), Name(nm), Tok("EQUAL"), Number(1),
              Tok("SEMICOLON"), Tok("SEMICOLON"), Tok("RIGHT_PAREN"), Tok("PRINT"),
              Number(1), Tok("SEMICOLON")>>
      [] form = "fun" ->
            <<Tok("FUN"), Name(nm), Tok("LEFT_PAREN"), Tok("RIGHT_PAREN"),
              Tok("LEFT_BRACE"), Tok("RIGHT_BRACE")>>
      [] form = "inBlock" ->
            <<Tok("LEFT_BRACE"), Tok("VAR"), Name(nm), Tok("SEMICOLON"),
              Tok("RIGHT_BRACE")>>
      [] form = "inFun" ->
            <<Tok("FUN"), Name("f"), Tok("LEFT_PAREN"), Tok("RIGHT_PAREN"),
              Tok("LEFT_BRACE"), Tok("VAR"), Name(nm), Tok("SEMICOLON"),
              Tok("RIGHT_BRACE")>>
      [] form = "funInIf" ->
            <<Tok("IF"), Tok("LEFT_PAREN"), Tok("TRUE"), Tok("RIGHT_PAREN"),
              Tok("LEFT_BRACE"), Tok("FUN"), Name(nm), Tok("LEFT_PAREN"),
              Tok("RIGHT_PAREN"), Tok("LEFT_BRACE"), Tok("RIGHT_BRACE"),
              Tok("RIGHT_BRACE")>>

Before == {<<>>, <<Tok("PRINT"), Number(1), Tok("SEMICOLON")>>,
           <<Tok("VAR"), Name("w"), Tok("EQUAL"), Number(1), Tok("SEMICOLON")>>}

After == {<<>>, <<Tok("PRINT"), Number(2), Tok("SEMICOLON")>>}

DeclPrograms(names) ==
    {pre \o Decl(form, nm) \o post \o <<EOFToken>> :
        pre \in Before, form \in DeclForms, nm \in names, post \in After}

(* the programs that declare a built-in name, and the same with other names *)
ReservedDeclPrograms == DeclPrograms(NativeNames \cup reservedIdentifiers)

PlainDeclPrograms == DeclPrograms({"y", "lenn"})

(* Expressions as token sequences with the tree they denote, built side by *)
(* side: an operand, a postfix form of an expression, an operator form    *)
Shape(toks, node) == [toks |-> toks, node |-> node]

Operands ==
    {Shape(<<Name("a")>>, Identifier("a")),
     Shape(<<Number(1)>>, Num(1)),
     Shape(<<String("s")>>, Literal(RunesV(<<"s">>))),
     Shape(<<Tok("TRUE")>>, Literal(BoolV(TRUE))),
     Shape(<<Tok("NIL")>>, Literal(NilV)),
     Shape(<<Tok("LEFT_PAREN"), Name("a"), Tok("RIGHT_PAREN")>>, Grouping(Identifier("a"))),
     Shape(<<Tok("LEFT_BRACKET"), Number(1), Tok("RIGHT_BRACKET")>>,
           ArrayLiteral(<<Num(1)>>))}

Postfix(e) ==
    {Shape(e.toks \o <<Tok("LEFT_BRACKET"), Number(0), Tok("RIGHT_BRACKET")>>,
           ArrayAccess(e.node, Num(0))),
     Shape(e.toks \o <<Tok("DOT"), Name("b")>>, PropertyAccess(e.node, "b")),
     Shape(e.toks \o <<Tok("LEFT_PAREN"), Tok("RIGHT_PAREN")>>, Call(e.node, <<>>))}

(* the depth of the postfix forms on an operand *)
MaxPostfix == 2

RECURSIVE PostfixForms(_)
PostfixForms(n) ==
    IF n = 0 THEN Operands
    ELSE PostfixForms(n - 1) \cup UNION {Postfix(e) : e \in PostfixForms(n - 1)}

UnaryTypes == {"BANG", "MINUS"}

LogicalTypes == {"LOGICAL_OR", "LOGICAL_AND"}

BinaryTypes ==
    {"OR", "XOR", "AND", "BANG_EQUAL", "EQUAL_EQUAL", "GREATER", "GREATER_EQUAL", "LESS",
     "LESS_EQUAL", "LEFT_SHIFT", "RIGHT_SHIFT", "MINUS", "PLUS", "SLASH", "STAR", "MODULO",
     "POWER"}

OperatorForms ==
    {Shape(<<Tok(op), Name("a")>>, Unary(op, Identifier("a"))) : op \in UnaryTypes}
    \cup {Shape(<<Name("a"), Tok(op), Name("b")>>,
                Binary(Identifier("a"), op, Identifier("b"))) : op \in BinaryTypes}
    \cup {Shape(<<Name("a"), Tok(op), Name("b")>>,
                Logical(Identifier("a"), op, Identifier("b"))) : op \in LogicalTypes}

(* the left-hand sides, the right-hand sides and the places of an assignment *)
Targets == PostfixForms(MaxPostfix) \cup OperatorForms

Values ==
    {Shape(<<Number(2)>>, Num(2)),
     Shape(<<Name("b"), Tok("PLUS"), Number(1)>>, Binary(Identifier("b"), "PLUS", Num(1))),
     Shape(<<Name("c"), Tok("EQUAL"), Number(3)>>, AssignmentStmt("c", Num(3)))}

Places == {"statement", "print", "initializer", "argument"}

(* target = value ; in a place *)
AssignmentTokens(place, target, value) ==
    LET assign == target.toks \o <<Tok("EQUAL")>> \o value.toks
    IN (CASE place = "statement" -> assign
          [] place = "print" -> <<Tok("PRINT")>> \o assign
          [] place = "initializer" -> <<Tok("VAR"), Name("z"), Tok("EQUAL")>> \o assign
          [] place = "argument" ->
                <<Name("f"), Tok("LEFT_PAREN")>> \o assign \o <<Tok("RIGHT_PAREN")>>)
       \o <<Tok("SEMICOLON"), EOFToken>>

(* the statement that holds the assignment node in a place *)
InPlace(place, node) ==
    CASE place = "statement" -> ExpressionStatement(node)
      [] place = "print" -> PrintStatement(node)
      [] place = "initializer" -> VarStmt("z", node)
      [] place = "argument" -> ExpressionStatement(Call(Identifier("f"), <<node>>))

AssignmentCases ==
    {[place |-> place, target |-> target, value |-> value,
      toks |-> AssignmentTokens(place, target, value)] :
        place \in Places, target \in Targets, value \in Values}

(* Chains of operators of one binary family: v1 op v2 op v3 ... ; *)
Families ==
    {{"LOGICAL_OR"}, {"LOGICAL_AND"}, {"OR"}, {"XOR"}, {"AND"},
     {"BANG_EQUAL", "EQUAL_EQUAL"}, {"GREATER", "GREATER_EQUAL", "LESS", "LESS_EQUAL"},
     {"LEFT_SHIFT", "RIGHT_SHIFT"}, {"MINUS", "PLUS"}, {"SLASH", "STAR", "MODULO"},
     {"POWER"}, {"EQUAL"}}

(* the most operators in a chain *)
MaxChain == 3

Chains == UNION {[1..n -> family] : n \in 2..MaxChain, family \in Families}

V(i) == "v" \o ToString(i)

RECURSIVE ChainTokens(_, _)
ChainTokens(ops, k) ==
    IF k > Len(ops) THEN <<Name(V(k)), Tok("SEMICOLON"), EOFToken>>
    ELSE <<Name(V(k)), Tok(ops[k])>> \o ChainTokens(ops, k + 1)

ChainPrograms == {ChainTokens(ops, 1) : ops \in Chains}

(* Expressions of operators of several levels: u1 v1 op1 u2 v2 op2 ... ; *)
(* with ui an optional unary operator                                     *)
LevelOperators ==
    {"LOGICAL_OR", "LOGICAL_AND", "OR", "XOR", "AND", "EQUAL_EQUAL", "LESS", "LEFT_SHIFT",
     "PLUS", "STAR", "POWER"}

(* the most binary operators in an expression of several levels *)
MaxMixed == 3

Mixed(ops, pre) == [ops |-> ops, pre |-> pre]

NoPrefix(n) == [i \in 1..(n + 1) |-> "none"]

MixedCases ==
    {Mixed(ops, NoPrefix(Len(ops))) :
        ops \in UNION {[1..n -> LevelOperators] : n \in 2..MaxMixed}}
    \cup {Mixed(ops, NoPrefix(2)) : ops \in [1..2 -> BinaryTypes \cup LogicalTypes]}
    \cup {Mixed(ops, pre) : ops \in [1..1 -> BinaryTypes \cup LogicalTypes],
                            pre \in [1..2 -> {"none"} \cup UnaryTypes]}
    \cup {Mixed(ops, pre) : ops \in [1..2 -> LevelOperators],
                            pre \in [1..3 -> {"none", "MINUS"}]}

RECURSIVE MixedTokens(_, _)
MixedTokens(c, k) ==
    (IF c.pre[k] = "none" THEN <<>> ELSE <<Tok(c.pre[k])>>)
    \o <<Name(V(k))>>
    \o (IF k > Len(c.ops) THEN <<Tok("SEMICOLON"), EOFToken>>
        ELSE <<Tok(c.ops[k])>> \o MixedTokens(c, k + 1))

MixedPrograms == {MixedTokens(c, 1) : c \in MixedCases}

(* 1 + 2 * 3 ** 2 & 4 | 5 ^ 6; *)
PrecedenceExample ==
    <<Number(1), Tok("PLUS"), Number(2), Tok("STAR"), Number(3), Tok("POWER"), Number(2),
      Tok("AND"), Number(4), Tok("OR"), Number(5), Tok("XOR"), Number(6),
      Tok("SEMICOLON"), EOFToken>>

AssignmentPrograms == {c.toks : c \in AssignmentCases}

ParseInputs ==
    ReservedDeclPrograms \cup PlainDeclPrograms \cup AssignmentPrograms
    \cup ChainPrograms \cup MixedPrograms \cup {PrecedenceExample}

(* NewParser(tokens), after ScanTokens *)
ParseInit ==
    /\ tokens \in ParseInputs
    /\ source = <<>>
    /\ start = 0
    /\ current = 0
    /\ line = 1
    /\ hadError = FALSE
    /\ reports = <<>>
    /\ phase = "parse"
    /\ pcurrent = 0
    /\ statements = <<>>
    /\ parseError = ""
    /\ interpreted = <<>>
    /\ EvalIdle

ParseNext ==
    \/ ParseDeclaration
    \/ ParseReturn
    \/ RunReturn
    \/ RunInterpret

ParseSpec == ParseInit /\ [][ParseNext]_vars

-----------------------------------------------------------------------------
(* Helpers of the properties *)

Nums(ns) == [i \in 1..Len(ns) |-> NumV(ns[i])]

TopOf(s) == s[Len(s)]
SignalInFlight == ctrl.mode = "ret" /\ ctrl.sig.type # ControlFlowNone
AtLoopBody == stack # <<>> /\ Top.node.t \in LoopKinds /\ Top.stage = "body"

-----------------------------------------------------------------------------
(* C1: closure capture.  The function returned by the README's counter    *)
(* example keeps the local n of the enclosing call: its three calls print *)
(* 1, 2, 3 and no runtime error (undefined variable) is ever reported.    *)
ClosureCapture ==
    prog = ClosureProg =>
        /\ ~hadRuntimeError
        /\ Done => out = Nums(<<1, 2, 3>>)

-----------------------------------------------------------------------------
(* C2: control-flow localization.  A Break that reaches a loop body ends  *)
(* exactly that loop and the loop returns no signal; a Continue resumes   *)
(* the same loop at its increment (For) or its condition (While); on the  *)
(* way to its loop a signal passes If and Block statements unchanged.     *)
(* On the nested-loop programs the inner signal never ends or skips the   *)
(* outer loop, and the statement after the inner loop runs.               *)
InnerOut(ik, sg) ==
    IF ik = "While" THEN (IF sg = ControlFlowBreak THEN <<>> ELSE <<2, 3>>)
    ELSE (IF sg = ControlFlowBreak THEN <<0>> ELSE <<0, 2>>)

NestedOut(ik, sg) == Nums(InnerOut(ik, sg) \o <<10>> \o InnerOut(ik, sg) \o <<10, 99>>)

LoopSignalStep ==
    (SignalInFlight /\ stack # <<>> /\ ctrl.sig.type \in LoopSignals) =>
        IF AtLoopBody
        THEN IF ctrl.sig.type = ControlFlowBreak
             THEN stack' = Pop /\ ctrl' = Ret(NilV, NoSignal)
             ELSE LET resume == IF Top.node.t = "While" THEN "cond"
                                ELSE IF Top.node.increment # NoNode THEN "inc"
                                ELSE IF Top.node.condition # NoNode THEN "cond"
                                ELSE "body"
                  IN /\ stack' = SetTop([Top EXCEPT !.stage = resume])
                     /\ ctrl' = Ev(IF resume = "cond" THEN Top.node.condition
                                   ELSE IF resume = "inc" THEN Top.node.increment
                                   ELSE Top.node.body, Top.env)
        ELSE Top.node.t \in {"IfStmt", "BlockStmt"} =>
                 stack' = Pop /\ ctrl' = Ret(NilV, ctrl.sig)

ControlFlowLocalization ==
    /\ [](\A ok \in LoopKinds, ik \in LoopKinds, sg \in LoopSignals, wrap \in 1..2 :
            prog = NestedLoopProg(ok, ik, sg, wrap) =>
                /\ ~hadRuntimeError
                /\ Done => out = NestedOut(ik, sg))
    /\ [](prog = ControlFlowDemo /\ Done => out = Nums(<<0, 2>>))
    /\ [][LoopSignalStep]_vars

ControlFlowLocalizationWitness ==
    /\ prog = NestedLoopProg("ForStmt", "While", ControlFlowContinue, 2)
    /\ Done
    /\ out = Nums(<<2, 3, 10, 2, 3, 10, 99>>)

-----------------------------------------------------------------------------
(* C3: a Return signal that reaches the body of a While loop leaves the   *)
(* loop at once and is handed on unchanged, as it is by a For loop; the   *)
(* call then prints the returned value 7.                                 *)
ReturnLeavesLoop ==
    (SignalInFlight /\ ctrl.sig.type = ControlFlowReturn /\ AtLoopBody) =>
        stack' = Pop /\ ctrl' = Ret(NilV, ctrl.sig)

ReturnPropagatesFromWhile ==
    /\ [](prog \in ReturnInLoopProgs /\ Done => out = Nums(<<7>>))
    /\ [][ReturnLeavesLoop]_vars

-----------------------------------------------------------------------------
(* C4: once the runtime-error flag is set no step prints, defines or      *)
(* assigns a variable, writes an array element or calls a function.       *)
NoEffect ==
    /\ out' = out
    /\ heap' = heap
    /\ calls' = calls
    /\ \A j \in 1..Len(envs') :
          envs'[j].vals = IF j <= Len(envs) THEN envs[j].vals ELSE EmptyVals

NoEffectAfterError == [][hadRuntimeError => NoEffect]_vars

-----------------------------------------------------------------------------
(* C5: after the runtime-error flag is set no loop starts another         *)
(* evaluation of its body.                                                *)
EntersLoopBody ==
    /\ ctrl'.mode = "eval"
    /\ stack' # <<>>
    /\ TopOf(stack').node.t \in LoopKinds
    /\ TopOf(stack').stage = "body"

LoopStopsOnError == [][hadRuntimeError => ~EntersLoopBody]_vars

-----------------------------------------------------------------------------
(* C6: a Break or Continue that reaches the body loop of Function.Call    *)
(* (outside every loop of the function) is reported as a runtime error.   *)
StraySignalStep ==
    (SignalInFlight /\ ctrl.sig.type \in LoopSignals /\ stack # <<>> /\ Top.stage = "fbody")
        => hadRuntimeError'

StraySignalIsError == [][StraySignalStep]_vars

-----------------------------------------------------------------------------
(* C7: a Break, Continue or Return signal that reaches Interpret sets the *)
(* runtime-error flag with the message of its kind and makes Interpret    *)
(* return nil; after that nothing changes, so the later top-level         *)
(* statements are not evaluated (only the first print of the program      *)
(* appears).                                                              *)
TopLevelSignalStep ==
    (returned = "running" /\ SignalInFlight /\ stack = <<>>) =>
        /\ hadRuntimeError'
        /\ returned' = "nil"
        /\ lastError' =
             CASE ctrl.sig.type = ControlFlowBreak -> "Unexpected 'break' outside of loop."
               [] ctrl.sig.type = ControlFlowContinue -> "Unexpected 'continue' outside of loop."
               [] ctrl.sig.type = ControlFlowReturn -> "Unexpected 'return' outside of function."

TopLevelSignal ==
    /\ [][TopLevelSignalStep]_vars
    /\ [][returned = "nil" => UNCHANGED vars]_vars
    /\ [](prog \in TopSignalProgs /\ Done =>
            returned = "nil" /\ hadRuntimeError /\ out = Nums(<<1>>))

TopLevelSignalWitness ==
    /\ prog = TopSignalProg(ControlFlowReturn, 2)
    /\ returned = "nil"
    /\ lastError = "Unexpected 'return' outside of function."
    /\ out = Nums(<<1>>)

-----------------------------------------------------------------------------
(* C8: shared arrays.  When one array is bound to two names (by           *)
(* declaration, by assignment, or as call arguments), an element written  *)
(* through one name is the value read through the other.                  *)
SharedArray ==
    \A how \in AliasHows, i \in 0..1, fwd \in BOOLEAN :
        prog = AliasProg(how, i, fwd) =>
            /\ ~hadRuntimeError
            /\ Done => out = Nums(<<9>>)

SharedArrayWitness ==
    /\ prog = AliasProg("arg", 1, TRUE)
    /\ Done
    /\ out = Nums(<<9>>)
    /\ heap[1] = Nums(<<1, 9>>)

-----------------------------------------------------------------------------
(* C9: the Var statement.  When the name is already in the current scope  *)
(* the statement reports "Cannot redeclare variable NAME." and changes no *)
(* binding; otherwise it adds the name to the current scope only, and a   *)
(* binding of the same name in an enclosing scope keeps its value.        *)
VarActs ==
    \/ Entering("VarStmt") /\ ctrl.node.initializer = NoNode
    \/ Resuming("VarStmt") /\ ~SignalInFlight /\ ~hadRuntimeError

VarEnv == IF ctrl.mode = "eval" THEN ctrl.env ELSE Top.env
VarName == IF ctrl.mode = "eval" THEN ctrl.node.name ELSE Top.node.name
VarValue == IF ctrl.mode = "eval" THEN NilV ELSE ctrl.val

VarStep ==
    VarActs =>
        IF VarName \in DOMAIN envs[VarEnv].vals
        THEN /\ hadRuntimeError'
             /\ lastError' = "Cannot redeclare variable " \o VarName \o "."
             /\ envs' = envs
        ELSE /\ UNCHANGED <<hadRuntimeError, lastError>>
             /\ Len(envs') = Len(envs)
             /\ DOMAIN envs'[VarEnv].vals = DOMAIN envs[VarEnv].vals \cup {VarName}
             /\ envs'[VarEnv].vals[VarName] = VarValue
             /\ \A x \in DOMAIN envs[VarEnv].vals :
                    envs'[VarEnv].vals[x] = envs[VarEnv].vals[x]
             /\ \A j \in 1..Len(envs) : j # VarEnv => envs'[j] = envs[j]

VarRedeclaration ==
    /\ [][VarStep]_vars
    /\ [](prog = Shadow /\ Done => out = <<NumV(2), NilV, NumV(1)>> /\ ~hadRuntimeError)
    /\ [](prog \in {RedeclareSame, RedeclareNoInit} /\ Done =>
            /\ lastError = "Cannot redeclare variable x."
            /\ envs[2].vals["x"] = NumV(1)
            /\ out = <<>>)

VarRedeclarationWitness ==
    /\ prog = RedeclareSame
    /\ Done
    /\ lastError = "Cannot redeclare variable x."
    /\ envs[2].vals["x"] = NumV(1)

-----------------------------------------------------------------------------
(* C10: assign writes the value into the nearest scope of the parent      *)
(* chain that holds the name and changes nothing else; when no scope      *)
(* holds the name it reports "Undefined variable" and changes no scope.   *)
RECURSIVE Chain(_, _)
Chain(E, e) == IF e = 0 THEN <<>> ELSE <<e>> \o Chain(E, E[e].parent)

Holders(E, e, nm) == { i \in 1..Len(Chain(E, e)) : nm \in DOMAIN E[Chain(E, e)[i]].vals }

Least(S) == CHOOSE m \in S : \A n \in S : m <= n
Greatest(S) == CHOOSE m \in S : \A n \in S : m >= n

AssignActs == Resuming("AssignmentStmt") /\ ~SignalInFlight /\ ~hadRuntimeError

AssignStepOk ==
    AssignActs =>
        LET nm == Top.node.name
            H == Holders(envs, Top.env, nm)
        IN IF H # {}
           THEN LET tgt == Chain(envs, Top.env)[Least(H)]
                IN /\ UNCHANGED <<hadRuntimeError, lastError>>
                   /\ Len(envs') = Len(envs)
                   /\ \A j \in 1..Len(envs) :
                        /\ envs'[j].parent = envs[j].parent
                        /\ DOMAIN envs'[j].vals = DOMAIN envs[j].vals
                        /\ \A x \in DOMAIN envs[j].vals :
                             envs'[j].vals[x] =
                                IF j = tgt /\ x = nm THEN ctrl.val ELSE envs[j].vals[x]
           ELSE /\ hadRuntimeError'
                /\ lastError' = "Undefined variable '" \o nm \o "'."
                /\ envs' = envs

(* what the three prints of AssignProg(lv) show: level 2, then 1, then 0 *)
Seen(lv, l) ==
    LET vis == { m \in lv : m <= l }
    IN IF Greatest(vis) = Greatest(lv) THEN 7 ELSE Greatest(vis)

AssignOut(lv) ==
    IF lv = {} THEN <<>>
    ELSE LET ls == << 2, 1, 0 >>
             n == Cardinality({ l \in 0..2 : l >= Least(lv) })
         IN [i \in 1..n |-> NumV(Seen(lv, ls[i]))]

AssignNearestScope ==
    /\ [][AssignStepOk]_vars
    /\ [](\A lv \in SUBSET (0..2) : prog = AssignProg(lv) /\ Done => out = AssignOut(lv))

AssignNearestScopeWitness ==
    /\ prog = AssignProg({0, 1})
    /\ Done
    /\ out = Nums(<<7, 7, 0>>)

-----------------------------------------------------------------------------
(* Claims about the scanner, checked under LexSpec *)

(* the runes the switch of scanToken reports as unexpected *)
Unexpected(c) ==
    /\ c \notin DOMAIN singleCharTokens
    /\ c \notin {"|", "&", "*", "!", "=", "<", ">", "/", " ", "\r", "\t", "\n", "\""}
    /\ ~isDigit(c)
    /\ ~isAlpha(c)

EndsInOneEOF ==
    /\ tokens # <<>>
    /\ tokens[Len(tokens)].type = "EOF"
    /\ \A i \in 1..(Len(tokens) - 1) : tokens[i].type # "EOF"

LinesNeverDecrease == \A i \in 1..(Len(tokens) - 1) : tokens[i].line <= tokens[i + 1].line

(* a step at an unexpected rune consumes that rune alone, reports it and *)
(* leaves the scan running with the tokens it has                        *)
UnexpectedRuneStep ==
    (phase = "scan" /\ ~isAtEnd(current) /\ Unexpected(source[current + 1])) =>
        /\ current' = current + 1
        /\ tokens' = tokens
        /\ phase' = "scan"
        /\ hadError'

(* C13: lexer totality.  On every source, with or without lexical errors,  *)
(* ScanTokens returns, having consumed the whole source, a token sequence  *)
(* with exactly one EOF token, at its end; line numbers never decrease     *)
(* along the tokens; an unknown rune is skipped and the scan goes on to    *)
(* the runes after it.                                                     *)
LexerTotality ==
    /\ <>[](phase = "scanned" /\ current = Len(source) /\ EndsInOneEOF)
    /\ [](phase = "scan" => \A i \in 1..Len(tokens) : tokens[i].type # "EOF")
    /\ []LinesNeverDecrease
    /\ [][UnexpectedRuneStep]_vars

(* an unknown rune, then an identifier and an unterminated string *)
LexerTotalityWitness ==
    /\ phase = "scanned"
    /\ source = <<"@", "x", "\"">>
    /\ reports = <<"Unexpected character.", "Unterminated string.">>
    /\ tokens = <<NewToken("IDENTIFIER", <<"x">>, [k |-> "nil"], 1),
                  NewToken("EOF", <<>>, [k |-> "nil"], 1)>>

(* the 1-based line of the i-th rune of the source *)
LineOfRune(i) == 1 + Cardinality({j \in 1..(i - 1) : source[j] = "\n"})

(* C14: the line number of every token a scanToken call appends is the    *)
(* line of the first rune of its lexeme, also for a string literal with   *)
(* newlines in it.                                                        *)
TokenLineIsFirstRuneLine ==
    [][(phase = "scan" /\ phase' = "scan" /\ tokens' # tokens) =>
          tokens'[Len(tokens')].line = LineOfRune(current + 1)]_vars

(* the end of the maximal identifier run that starts after position c *)
RunEnd(c) ==
    CHOOSE e \in (c + 1)..Len(source) :
        /\ \A j \in (c + 1)..e : isAlphaNumeric(source[j])
        /\ e = Len(source) \/ ~isAlphaNumeric(source[e + 1])

(* C15: keyword precedence.  A maximal identifier run scans to one token; *)
(* its kind is the kind the keyword table lists for the run (PRINT for    *)
(* both print keywords, LOGICAL_AND and LOGICAL_OR for the two Bengali    *)
(* operators), and IDENTIFIER when the run is no keyword, such as a       *)
(* longer run that starts with one.                                       *)
KeywordPrecedence ==
    [][(phase = "scan" /\ ~isAtEnd(current) /\ isAlpha(source[current + 1])) =>
          LET text == Text(current, RunEnd(current))
          IN /\ Len(tokens') = Len(tokens) + 1
             /\ tokens'[Len(tokens')].lexeme = text
             /\ tokens'[Len(tokens')].type =
                    IF text \in DOMAIN KeywordTable THEN KeywordTable[text]
                    ELSE "IDENTIFIER"]_vars

(* the part of C15 the scanner keeps: the same with its own table *)
ScannerKeywordPrecedence ==
    [][(phase = "scan" /\ ~isAtEnd(current) /\ isAlpha(source[current + 1])) =>
          LET text == Text(current, RunEnd(current))
          IN /\ Len(tokens') = Len(tokens) + 1
             /\ tokens'[Len(tokens')].lexeme = text
             /\ tokens'[Len(tokens')].type =
                    IF text \in DOMAIN keywords THEN keywords[text]
                    ELSE "IDENTIFIER"]_vars

-----------------------------------------------------------------------------
(* the message of the reserved-name check for a declaration of nm *)
ReservedMessages(nm) ==
    {"'" \o nm \o "' is a reserved identifier and cannot be used as a " \o kind \o " name."
        : kind \in {"variable", "function"}}

Parsed == phase \in {"parsed", "returned", "interpret"}

(* C11: reserved identifiers.  A program with a VAR declarator (first or    *)
(* later of a list, also in a For initializer) or a function declaration    *)
(* that names a built-in is rejected: the parser reports the reserved name, *)
(* had-error is set, Parse returns an error and no statements, and nothing  *)
(* is handed to the interpreter.                                            *)
ReservedIdentifiersRejected ==
    tokens \in ReservedDeclPrograms =>
        /\ phase # "interpret"
        /\ interpreted = <<>>
        /\ Parsed => /\ hadError
                     /\ statements = <<>>
                     /\ \E nm \in NativeNames \cup reservedIdentifiers :
                            /\ parseError \in ReservedMessages(nm)
                            /\ reports = <<parseError>>
                            /\ \E i \in 1..Len(tokens) : tokens[i] = Name(nm)

(* var x = 0, len = 1 in a For initializer, between two print statements *)
ReservedIdentifiersRejectedWitness ==
    /\ phase = "returned"
    /\ tokens = <<Tok("PRINT"), Number(1), Tok("SEMICOLON")>> \o Decl("forSecond", "len")
                \o <<Tok("PRINT"), Number(2), Tok("SEMICOLON"), EOFToken>>
    /\ hadError
    /\ parseError = "'len' is a reserved identifier and cannot be used as a variable name."
    /\ statements = <<>>
    /\ interpreted = <<>>

-----------------------------------------------------------------------------
(* the assignment node the parser is to build of a target and a value *)
AssignmentNode(target, value) ==
    CASE target.t = "Identifier" -> AssignmentStmt(target.name, value)
      [] target.t = "ArrayAccess" -> ArrayAssignment(target.array, target.index, value)
      [] target.t = "PropertyAccess" ->
            PropertyAssignment(target.object, target.property, value)

AssignableShapes == {"Identifier", "ArrayAccess", "PropertyAccess"}

(* C16: assignment target soundness.  For target = value, in a statement,  *)
(* a print, an initializer or an argument: an Identifier target gives an   *)
(* Assignment node, an ArrayAccess target an ArrayAssignment of the same   *)
(* collection and index, a PropertyAccess target a PropertyAssignment; any *)
(* other target (literal, grouping, call, array literal, unary, binary,    *)
(* logical) reports "Invalid assignment target.", sets had-error and gives *)
(* no statement.                                                           *)
AssignmentTargetSoundness ==
    tokens \in AssignmentPrograms /\ Parsed =>
        \A c \in AssignmentCases : tokens = c.toks =>
            IF c.target.node.t \in AssignableShapes
            THEN /\ ~hadError
                 /\ parseError = ""
                 /\ statements = <<InPlace(c.place, AssignmentNode(c.target.node,
                                                                    c.value.node))>>
            ELSE /\ hadError
                 /\ parseError = "Invalid assignment target."
                 /\ reports = <<"Invalid assignment target.">>
                 /\ statements = <<>>
                 /\ interpreted = <<>>

(* a.b[0] = 2; is an ArrayAssignment into a.b at index 0 *)
AssignmentTargetSoundnessWitness ==
    /\ phase = "interpret"
    /\ tokens = <<Name("a"), Tok("DOT"), Name("b"), Tok("LEFT_BRACKET"), Number(0),
                  Tok("RIGHT_BRACKET"), Tok("EQUAL"), Number(2), Tok("SEMICOLON"),
                  EOFToken>>
    /\ ~hadError
    /\ interpreted =
           <<ExpressionStatement(ArrayAssignment(PropertyAccess(Identifier("a"), "b"),
                                                 Num(0), Num(2)))>>

-----------------------------------------------------------------------------
(* the node of an operator and its operands *)
OperatorNode(l, op, r) ==
    IF op = "EQUAL" THEN AssignmentStmt(l.name, r)
    ELSE IF op \in LogicalTypes THEN Logical(l, op, r)
    ELSE Binary(l, op, r)

(* ((v1 op v2) op v3) ... of the first k operators *)
RECURSIVE LeftAssociated(_, _)
LeftAssociated(ops, k) ==
    IF k = 0 THEN Identifier(V(1))
    ELSE OperatorNode(LeftAssociated(ops, k - 1), ops[k], Identifier(V(k + 1)))

(* vk op (... op (vn op vn+1)) of the operators from the k-th on *)
RECURSIVE RightAssociated(_, _)
RightAssociated(ops, k) ==
    IF k > Len(ops) THEN Identifier(V(k))
    ELSE OperatorNode(Identifier(V(k)), ops[k], RightAssociated(ops, k + 1))

(* the operators of a chain v1 op v2 op ... ; in the token sequence *)
ChainOperators == [k \in 1..((Len(tokens) - 3) \div 2) |-> tokens[2 * k].type]

ChainParsesAs(node) ==
    /\ ~hadError
    /\ statements = <<ExpressionStatement(node)>>

(* C17: associativity.  A chain of operators of one binary family parses  *)
(* left-associatively, ((v1 op v2) op v3), except the chains of ** and of *)
(* =, which parse right-associatively, v1 ** (v2 ** v3), v1 = (v2 = v3). *)
Associativity ==
    tokens \in ChainPrograms /\ Parsed =>
        LET ops == ChainOperators
        IN ChainParsesAs(IF ops[1] \in {"POWER", "EQUAL"}
                         THEN RightAssociated(ops, 1)
                         ELSE LeftAssociated(ops, Len(ops)))

(* what Parser.power and the other levels build: only = associates to the right *)
AssociativityOfTheLoops ==
    tokens \in ChainPrograms /\ Parsed =>
        LET ops == ChainOperators
        IN ChainParsesAs(IF ops[1] = "EQUAL"
                         THEN RightAssociated(ops, 1)
                         ELSE LeftAssociated(ops, Len(ops)))

-----------------------------------------------------------------------------
(* the levels of the operators, from the loosest to the tightest *)
LevelOf(op) ==
    CASE op = "LOGICAL_OR" -> 1
      [] op = "LOGICAL_AND" -> 2
      [] op = "OR" -> 3
      [] op = "XOR" -> 4
      [] op = "AND" -> 5
      [] op \in {"BANG_EQUAL", "EQUAL_EQUAL"} -> 6
      [] op \in {"GREATER", "GREATER_EQUAL", "LESS", "LESS_EQUAL"} -> 7
      [] op \in {"LEFT_SHIFT", "RIGHT_SHIFT"} -> 8
      [] op \in {"MINUS", "PLUS"} -> 9
      [] op \in {"SLASH", "STAR", "MODULO"} -> 10
      [] op = "POWER" -> 11

(* the level of the operator at the root of a tree: 12 unary, 13 an operand *)
Level(node) ==
    IF node.t \in {"Binary", "Logical"} THEN LevelOf(node.operator)
    ELSE IF node.t = "Unary" THEN 12
    ELSE 13

(* no operator stands below a tighter one *)
RECURSIVE WellGrouped(_)
WellGrouped(node) ==
    IF node.t \in {"Binary", "Logical"}
    THEN /\ Level(node.left) >= Level(node)
         /\ Level(node.right) >= Level(node)
         /\ WellGrouped(node.left)
         /\ WellGrouped(node.right)
    ELSE IF node.t = "Unary"
         THEN Level(node.right) >= 12 /\ WellGrouped(node.right)
    ELSE TRUE

(* the lexemes of a tree from left to right *)
RECURSIVE Yield(_)
Yield(node) ==
    IF node.t \in {"Binary", "Logical"}
    THEN Yield(node.left) \o <<lexemeOf[node.operator]>> \o Yield(node.right)
    ELSE IF node.t = "Unary" THEN <<lexemeOf[node.operator]>> \o Yield(node.right)
    ELSE IF node.t = "Identifier" THEN <<node.name>>
    ELSE <<ToString(node.value.n)>>

(* C18: operator precedence.  The tree of an expression of binary, logical *)
(* and unary operators has the tokens of the expression as its leaves and  *)
(* operators in their order, and groups every operator below the looser    *)
(* ones only: logical-or, logical-and, |, ^, &, equality, comparison,      *)
(* shift, + -, * / %, **, unary.  1 + 2 * 3 ** 2 & 4 | 5 ^ 6 parses as     *)
(* (((1 + (2 * (3 ** 2))) & 4) | (5 ^ 6)).                                 *)
OperatorPrecedence ==
    /\ (tokens \in MixedPrograms \/ tokens = PrecedenceExample) /\ Parsed =>
           /\ ~hadError
           /\ Len(statements) = 1
           /\ statements[1].t = "ExpressionStatement"
           /\ Yield(statements[1].expression)
                  = [i \in 1..(Len(tokens) - 2) |-> tokens[i].lexeme]
           /\ WellGrouped(statements[1].expression)
    /\ tokens = PrecedenceExample /\ Parsed =>
           statements =
              <<ExpressionStatement(
                  Binary(Binary(Binary(Num(1), "PLUS",
                                       Binary(Num(2), "STAR",
                                              Binary(Num(3), "POWER", Num(2)))),
                                "AND", Num(4)),
                         "OR",
                         Binary(Num(5), "XOR", Num(6))))>>

(* -v1 + v2 * v3 is parsed: the product stands below the sum, v1 below the minus *)
OperatorPrecedenceWitness ==
    /\ phase = "interpret"
    /\ tokens = <<Tok("MINUS"), Name("v1"), Tok("PLUS"), Name("v2"), Tok("STAR"),
                  Name("v3"), Tok("SEMICOLON"), EOFToken>>
    /\ interpreted =
           <<ExpressionStatement(
               Binary(Unary("MINUS", Identifier("v1")), "PLUS",
                      Binary(Identifier("v2"), "STAR", Identifier("v3"))))>>

-----------------------------------------------------------------------------
-----------------------------------------------------------------------------
(* C19: equality reflexivity.  For a value v of every kind (number,       *)
(* integer, boolean, string literal, concatenated string, array, function, *)
(* native), v == v is true and v != v is false: the program that prints   *)
(* both for a variable v prints true, false and does not end in a panic.  *)
EqualityReflexive ==
    prog \in SelfComparisonProgs =>
        /\ prog # <<>>
        /\ returned # "panic"
        /\ ~hadRuntimeError
        /\ Done => out = <<BoolV(TRUE), BoolV(FALSE)>>

(* the kinds whose values Go compares: all but the slices *)
EqualityReflexiveOnComparable ==
    \A kind \in ValueKinds \ {"literal", "array"} :
        prog = Parse(SelfComparisonTokens(kind)) =>
            /\ prog # <<>>
            /\ returned # "panic"
            /\ ~hadRuntimeError
            /\ Done => out = <<BoolV(TRUE), BoolV(FALSE)>>

-----------------------------------------------------------------------------
(* C20: numeric equality ignores the integer/float tag.  The result of a  *)
(* bitwise operator and the number literal of the same value are equal:   *)
(* (a op b) == n prints true and n != (a op b) prints false, e.g. for     *)
(* (5 & 3) == 1.                                                           *)
NumericEqualityIgnoresTag ==
    prog \in MixedTagProgs =>
        /\ prog # <<>>
        /\ ~hadRuntimeError
        /\ Done => out = <<BoolV(TRUE), BoolV(FALSE)>>

-----------------------------------------------------------------------------
(* A file run: main.runFile on the tokens and the reports ScanTokens left, *)
(* through Parse and Interpret to the exit of the process                  *)

(* a program that takes every path of eval once and ends without an error *)
TourTokens ==
    Words(<<"fun", "f", "(", "n", ")", "{",
              "while", "(", "n", "<", "2", ")", "{", "n", "=", "n", "+", "1", ";", "}",
              "return", "n", ";", "}",
            "var", "a", "=", "[", "1", ",", "2", "]", ";",
            "a", "[", "0", "]", "=", "f", "(", "1", ")", ";",
            "for", "(", "var", "i", "=", "0", ";", "i", "<", "3", ";",
                   "i", "=", "i", "+", "1", ")", "{",
              "if", "(", "i", "==", "0", ")", "{", "continue", ";", "}",
              "if", "(", "i", "==", "2", ")", "{", "break", ";", "}",
              "print", "-", "a", "[", "0", "]", ";", "}",
            "print", "!", "(", "nil", "||", "false", ")", "&&", "a", "[", "1", "]", ";",
            "len", "(", "a", ")", ";">>)

(* programs that end in a runtime error *)
RuntimeErrorTokens ==
    {Words(<<"print", "u", ";", "print", "1", ";">>),
     Words(<<"print", "1", ";", "print", "1", "/", "0", ";">>),
     Words(<<"break", ";">>),
     Words(<<"var", "x", "=", "1", ";", "x", "(", ")", ";">>)}

(* programs Parse rejects *)
ParseErrorTokens ==
    {Words(<<"print", "1">>),
     Words(<<"print", "1", ";", "print", ";">>),
     Words(<<"var", "len", "=", "1", ";">>),
     Words(<<"1", "=", "2", ";">>),
     Words(<<"print", "u", ";", "}">>)}

(* programs in whose source ScanTokens met a rune it reports, and skips *)
LexErrorTokens ==
    {Words(<<"print", "1", ";">>), Words(<<"print", "u", ";">>), Words(<<"print", "1">>)}

(* programs whose evaluation panics *)
PanicTokens ==
    {<<Tok("PRINT"), String("a"), Tok("EQUAL_EQUAL"), String("b"), Tok("SEMICOLON")>>,
     Words(<<"print", "1", ";", "print", "1", "<<", "-", "1", ";">>)}

FileInputs ==
    {[toks |-> ts \o <<EOFToken>>, reps |-> <<>>] :
        ts \in {TourTokens} \cup RuntimeErrorTokens \cup ParseErrorTokens \cup PanicTokens
                \cup {TruthinessTokens(kind) : kind \in TruthKinds}}
    \cup {[toks |-> ts \o <<EOFToken>>, reps |-> <<"Unexpected character.">>] :
             ts \in LexErrorTokens}

(* run: NewParser(tokens) after ScanTokens, the flag as the scanner left it *)
FileInit ==
    /\ \E f \in FileInputs :
          /\ tokens = f.toks
          /\ reports = f.reps
          /\ hadError = (f.reps # <<>>)
    /\ source = <<>>
    /\ start = 0
    /\ current = 0
    /\ line = 1
    /\ phase = "parse"
    /\ pcurrent = 0
    /\ statements = <<>>
    /\ parseError = ""
    /\ interpreted = <<>>
    /\ EvalIdle

(* runFile after run returned: os.Exit(65), os.Exit(70) or the return of *)
(* main; a panic, which nothing recovers, ends the process with status 2 *)
RunFileExit ==
    /\ \/ phase = "returned"
       \/ phase = "interpret" /\ returned \in {"results", "nil", "panic"}
    /\ phase' = CASE returned = "panic" -> "exit 2"
                  [] returned # "panic" /\ hadError -> "exit 65"
                  [] returned # "panic" /\ ~hadError /\ hadRuntimeError -> "exit 70"
                  [] OTHER -> "exit 0"
    /\ UNCHANGED <<source, start, current, line, tokens, hadError, reports, pcurrent,
                   statements, parseError, interpreted, evalVars>>

FileNext ==
    \/ ParseDeclaration
    \/ ParseReturn
    \/ RunReturn
    \/ RunInterpret
    \/ Next
    \/ RunFileExit

FileSpec == FileInit /\ [][FileNext]_vars

Exited == phase \in {"exit 0", "exit 2", "exit 65", "exit 70"}

-----------------------------------------------------------------------------
(* C21: truthiness.  !!v is false for nil and false, for the number and    *)
(* the integer zero and for the empty string (the literal "" and the empty *)
(* concatenation); it is true for true, a number or integer that is not    *)
(* zero, a string that is not empty, an array (empty or not), a function   *)
(* and a built-in: the program print !!v; prints exactly that boolean.     *)
Falsy == {"nil", "false", "zero", "zero integer", "empty literal", "empty concatenation"}

Truthiness ==
    \A kind \in TruthKinds :
        prog = TruthinessParsed[kind] =>
            /\ prog # <<>>
            /\ ~hadRuntimeError
            /\ Done => out = <<BoolV(kind \notin Falsy)>>

(* every kind but the empty string literal, which is a []rune *)
TruthinessButEmptyLiteral ==
    \A kind \in TruthKinds \ {"empty literal"} :
        prog = TruthinessParsed[kind] =>
            /\ prog # <<>>
            /\ ~hadRuntimeError
            /\ Done => out = <<BoolV(kind \notin Falsy)>>

-----------------------------------------------------------------------------
(* C22: the outcome of a file run.  When the scanner or the parser has set *)
(* the had-error flag no statement is evaluated (Interpret is not entered, *)
(* nothing is printed, no runtime error is reported) and the process exits *)
(* with 65; otherwise, when evaluation has set the runtime-error flag, it  *)
(* exits with 70; otherwise with 0.  A run with a report of the scanner or *)
(* an error of the parser never exits with 70 or 0.                        *)
NothingEvaluated ==
    /\ returned = "init"
    /\ ctrl = Idle
    /\ out = <<>>
    /\ envs = <<Globals>>
    /\ ~hadRuntimeError

FileOutcome ==
    /\ hadError => NothingEvaluated
    /\ Exited =>
          phase = (IF hadError THEN "exit 65"
                   ELSE IF hadRuntimeError THEN "exit 70" ELSE "exit 0")
    /\ (reports # <<>> \/ parseError # "") => phase \notin {"exit 70", "exit 0"}

(* the same for the runs whose evaluation does not panic *)
FileOutcomeWithoutPanic ==
    returned # "panic" => FileOutcome

-----------------------------------------------------------------------------
(* C23: the checks of a call.  A call of a value that is not callable      *)
(* reports "Can only call functions."; a call of a function or built-in    *)
(* whose arity is not -1 with another number of arguments reports          *)
(* "Expected N arguments but M.".  In both cases the step that reports     *)
(* sets the runtime-error flag and yields nil, no Call method runs (the    *)
(* body prints nothing) and no argument is evaluated.  The built-in        *)
(* append, of arity -1, passes the check with 0, 1, 2 and 3 arguments:     *)
(* its Call method runs, and what is reported is its own error.            *)
Rejected(c) == c.error \in {"Can only call functions."} \cup
                   {"Expected " \o n \o " arguments but " \o m \o "." :
                       n \in {"0", "1", "2"}, m \in {"0", "1", "2"}}

CallChecksStep ==
    \A c \in CallParsed :
        prog = c.prog =>
            /\ prog # <<>>
            /\ Len(heap') <= c.arrays
            /\ Rejected(c) => calls' = 0 /\ out' = <<>>
            /\ (~hadRuntimeError /\ hadRuntimeError') =>
                  /\ c.error # ""
                  /\ lastError' = c.error
                  /\ ctrl' = Ret(NilV, NoSignal)
                  /\ Rejected(c) => stack' = Pop
            /\ returned' \in {"results", "nil"} =>
                  /\ hadRuntimeError' = (c.error # "")
                  /\ out' = c.out
                  /\ ~Rejected(c) => calls' >= 1

CallChecks == [][CallChecksStep]_vars

CallChecksWitness ==
    /\ prog = Parse(DeclareF \o Words(<<"f", "(", "1", ",", "2", ")", ";">>))
    /\ returned = "nil"
    /\ hadRuntimeError
    /\ lastError = "Expected 1 arguments but 2."
    /\ calls = 0

-----------------------------------------------------------------------------
(* C24: operator domain errors.  print L op R; with an operand outside the *)
(* domain of op prints nothing: / and % by zero report "Division by        *)
(* zero."; an arithmetic or comparison operator with an operand that is    *)
(* not a number (nil, a boolean, a string, an array) reports "Left operand *)
(* must be a number." or "Right operand must be a number." for the side;   *)
(* + with nil or a boolean reports "Operands must be numbers or strings.", *)
(* and "Right operand must be a string or number." behind a string.  The   *)
(* step that reports sets the flag and yields nil.                         *)
DomainStep(c) ==
    prog = c.prog =>
        /\ prog # <<>>
        /\ out' = <<>>
        /\ (~hadRuntimeError /\ hadRuntimeError') =>
              lastError' = c.error /\ ctrl' = Ret(NilV, NoSignal)
        /\ returned' \in {"results", "nil"} => hadRuntimeError'

OperatorDomainErrors == [][\A c \in DomainParsed : DomainStep(c)]_vars

(* the same but for the strings a concatenation made of digits *)
OperatorDomainErrorsButNumerals ==
    [][\A c \in DomainParsed : c.kind # "concatenation of digits" => DomainStep(c)]_vars

-----------------------------------------------------------------------------
(* C25: the variable of a For initializer.  for (var i = 0; ...) defines i *)
(* in an environment of the loop, not in the one around the For statement: *)
(* no environment that was there before the loop holds i, a use of i after *)
(* the loop reports that i is not defined, and a second For statement of   *)
(* the same scope declares i again, without "Cannot redeclare variable     *)
(* i.", and runs its body.                                                 *)
ForInitializerScope ==
    /\ prog \in ForThenUseProgs \cup ForThenForProgs =>
          /\ prog # <<>>
          /\ \A e \in 1..Len(envs) :
                 "i" \in DOMAIN envs[e].vals =>
                     e > (IF prog[1].t = "BlockStmt" THEN 3 ELSE 2)
    /\ (prog \in ForThenUseProgs /\ Done) =>
          hadRuntimeError /\ lastError = "Variable i is not defined." /\ out = <<>>
    /\ (prog \in ForThenForProgs /\ Done) => ~hadRuntimeError /\ out = <<NumV(0)>>

(* what the For statement does: i is defined in the surrounding scope *)
ForInitializerInSurroundingScope ==
    /\ \A n \in 0..2, wrap \in BOOLEAN :
          (prog = ForThenUse(n, wrap) /\ Done) => ~hadRuntimeError /\ out = <<NumV(n)>>
    /\ (prog \in ForThenForProgs /\ Done) =>
          hadRuntimeError /\ lastError = "Cannot redeclare variable i." /\ out = <<>>

-----------------------------------------------------------------------------
(* C26: block scoping.  A Block is evaluated in a new, empty environment   *)
(* whose parent is the environment around it.  While the block runs, and   *)
(* when it ends (normally, by a signal or by a runtime error), every scope *)
(* that was there before it keeps its set of names, and a value of such a  *)
(* scope changes only by an assignment to that name.  After the block a    *)
(* name defined in it is not resolvable: print y reports that y is not     *)
(* defined, and x has the value the block assigned to the outer x (7 at   *)
(* its normal end, 3 before a break or a continue).                        *)
BlockFrames == {k \in 1..Len(stack) : stack[k].node.t = "BlockStmt"}

BlockScopingStep ==
    /\ Entering("BlockStmt") =>
          /\ envs' = Append(envs, [vals |-> EmptyVals, parent |-> ctrl.env])
          /\ ctrl'.mode = "eval" => ctrl'.env = Len(envs) + 1
    /\ \A k \in BlockFrames : \A e \in 1..(stack[k].env - 1) :
          /\ DOMAIN envs'[e].vals = DOMAIN envs[e].vals
          /\ \A nm \in DOMAIN envs[e].vals :
                envs'[e].vals[nm] # envs[e].vals[nm] =>
                    /\ ctrl.mode = "ret"
                    /\ Top.node.t = "AssignmentStmt"
                    /\ Top.node.name = nm
    /\ \A end \in BlockEnds :
          prog = BlockParsed[end] =>
              /\ prog # <<>>
              /\ (returned' \in {"results", "nil"} /\ end # "error") =>
                    /\ out' = <<NumV(CASE end = "normally" -> 7 [] end = "return" -> 6
                                        [] OTHER -> 3)>>
                    /\ lastError' = "Variable y is not defined."
              /\ (returned' \in {"results", "nil"} /\ end = "error") =>
                    /\ out' = <<>>
                    /\ lastError' = "Variable u is not defined."
                    /\ Get(envs', 2, "x").val = NumV(3)
                    /\ ~Get(envs', 2, "y").ok

BlockScoping == [][BlockScopingStep]_vars

BlockScopingWitness ==
    /\ prog = BlockParsed["break"]
    /\ Done
    /\ out = <<NumV(3)>>
    /\ lastError = "Variable y is not defined."
    /\ \E e \in 1..Len(envs) : "y" \in DOMAIN envs[e].vals

-----------------------------------------------------------------------------
(* C27: logical short-circuit.  In print L op b(); where b prints 9 and    *)
(* returns R: when L is truthy and op is ||, or L is falsy and op is &&,   *)
(* the program prints the value of L and nothing else (b is not called);   *)
(* otherwise it prints 9 exactly once and then R itself, not a boolean     *)
(* made from R.  No runtime error is reported in either case.              *)
LeftDecides(c) == (c.op = "LOGICAL_OR") = (c.left \notin Falsy)

Count(seq, v) == Cardinality({i \in 1..Len(seq) : seq[i] = v})

-----------------------------------------------------------------------------
(* C28: array index checking.  On var a = [1, 2]; a read a[I] or an         *)
(* assignment a[I] = 9 reports "Array index must be an integer." when I is  *)
(* not an integer, and "Array index out of bounds." when I is an integer    *)
(* outside [0, 2); in both cases a keeps its length and its elements 1, 2   *)
(* and nothing is printed.  With I in [0, 2) the read prints element I and  *)
(* the assignment changes element I to 9 and nothing else.                  *)
InRange(kind) == kind \in {"0", "1"}

IndexError(kind) ==
    CASE InRange(kind) -> ""
      [] kind \in {"2", "3", "-1"} -> "Array index out of bounds."
      [] OTHER -> "Array index must be an integer."

ArrayOfA == IF heap = <<>> THEN <<NumV(1), NumV(2)>> ELSE heap[1]

IndexChecksOn(kinds) ==
    \A c \in IndexCases :
        (prog = c.prog /\ c.index \in kinds) =>
            /\ prog # <<>>
            /\ ~(InRange(c.index) /\ c.write) => ArrayOfA = <<NumV(1), NumV(2)>>
            /\ Done =>
                  /\ lastError = IndexError(c.index)
                  /\ hadRuntimeError = ~InRange(c.index)
                  /\ out = (IF InRange(c.index) /\ ~c.write
                            THEN <<NumV(IntegerIndex[c.index] + 1)>> ELSE <<>>)
                  /\ (InRange(c.index) /\ c.write) =>
                        heap = <<[<<NumV(1), NumV(2)>>
                                    EXCEPT ![IntegerIndex[c.index] + 1] = NumV(9)]>>

ArrayIndexChecks == IndexChecksOn(IndexKinds)

(* every index but the Go string that reads as a number *)
ArrayIndexChecksButNumerals == IndexChecksOn(IndexKinds \ {"concatenation of digits"})

-----------------------------------------------------------------------------
(* C29: no operator evaluation aborts the interpreter.  print L op R; for   *)
(* == and != on any two values (two string literals and two arrays among    *)
(* them) and for << and >> with any count, a negative one included, never   *)
(* ends in a panic: the run ends having printed one value or having         *)
(* reported a runtime error.                                                *)
Uncomparable == {"literal", "array"}

NoPanicOn(cases) ==
    \A c \in cases :
        prog = c.prog =>
            /\ prog # <<>>
            /\ returned # "panic"
            /\ Done => (Len(out) = 1) # hadRuntimeError

OperatorsNeverPanic == NoPanicOn(OperatorCases)

(* the operand pairs Go compares and the counts that are not negative *)
OperatorsNeverPanicOnComparable ==
    NoPanicOn({c \in OperatorCases :
                  /\ ~(c.left = c.right /\ c.left \in Uncomparable)
                  /\ c.right # "negative count"})

-----------------------------------------------------------------------------
(* C30: remove does not modify its argument.  After var a = [1, 2, 3];      *)
(* var b = remove(a, I); with I in [0, 3) b holds the elements of a without *)
(* the one at I, in order, and a still has length 3 and the elements 1, 2,  *)
(* 3, so print a[I]; prints I + 1.  With I outside [0, 3) or not an integer *)
(* a runtime error is reported, b is not defined and a is unchanged.        *)
Elements(v) == [i \in 1..v.len |-> heap[v.ptr][i]]

Without(seq, i) == [j \in 1..(Len(seq) - 1) |-> IF j <= i THEN seq[j] ELSE seq[j + 1]]

OneTwoThree == <<NumV(1), NumV(2), NumV(3)>>

RemoveOn(kinds) ==
    \A kind \in kinds :
        prog = RemoveParsed[kind] =>
            /\ prog # <<>>
            /\ Done =>
                  /\ Get(envs, 2, "a").ok
                  /\ Get(envs, 2, "a").val.k = "array"
                  /\ Elements(Get(envs, 2, "a").val) = OneTwoThree
                  /\ IF kind \in {"0", "1", "2"}
                     THEN /\ ~hadRuntimeError
                          /\ Get(envs, 2, "b").val.k = "array"
                          /\ Elements(Get(envs, 2, "b").val)
                                = Without(OneTwoThree, IntegerIndex[kind])
                          /\ out = <<NumV(IntegerIndex[kind] + 1)>>
                     ELSE /\ hadRuntimeError
                          /\ ~Get(envs, 2, "b").ok
                          /\ out = <<>>

RemoveKeepsArgument == RemoveOn(RemoveKinds)

(* the last index, behind which remove has nothing to move, and the indexes *)
(* it rejects                                                               *)
RemoveKeepsArgumentAtTheEnd == RemoveOn(RemoveKinds \ {"0", "1"})

====
